---- MODULE Spec2Model ----
(***************************************************************************)
(* Model of the HID report descriptor compiler of src/src/HidDescriptor.hpp *)
(* (namespace hid::detail): the integer codec, the encoding tables, the    *)
(* name resolver findEncoding, the diagnostic emitter ErrorWriter::at and  *)
(* the state machine of compile().                                         *)
(*                                                                         *)
(* Conventions.  A byte is an integer 0..255; a source is a sequence of    *)
(* bytes, C index i being source[i + 1].  A uint32_t is a pair <<hi, lo>>  *)
(* of 16-bit halves (the checker's integers are 32-bit signed, so a        *)
(* uint32_t does not fit one of them); an int32_t is the same pair read as *)
(* two's complement.  An int64_t parameter value is a pair <<q, r>> with   *)
(* value q * 2^32 + r, r a uint32_t (its low word), q its signed high word.*)
(* Signed overflow is undefined behaviour in C++: where the code can       *)
(* execute one, the model offers both what builds do with it, wrapping     *)
(* (two's complement) and trapping (-ftrapv, constant evaluation).         *)
(***************************************************************************)
EXTENDS Integers, Sequences, FiniteSets, TLC

VARIABLES
    source,        \* bytes of the source revealed so far (source.data())
    sourceEnded,   \* TRUE once source is complete (source.size() is Len(source))
    colLevel, delimLevel, usageAtLevel, reportSizes, reportCounts,
    n,             \* loop index n (ptr = source.data() + n)
    tItem, tArg,   \* tokens [start, length]
    hasUsagePage, hasArg, multiArg, negLit,
    encMap, usagePage, encUnit,
    flags, item, arg, lit,
    out,           \* bytes the writer has received, in order
    error,         \* hid::error::Info
    pc,            \* "loop" | "done" | "trap" and the codec's positions
    ret,           \* value returned by compile
    val,           \* input of the codec specification
    prog,          \* the chunks source was put together from, in order
    vocab,         \* the vocabulary the chunks are drawn from
    writer,        \* the sink: [kind, size, data, pos]
    prev           \* the outcome of the caller's previous call of compile

vars == << source, sourceEnded, colLevel, delimLevel, usageAtLevel, reportSizes,
           reportCounts, n, tItem, tArg, hasUsagePage, hasArg, multiArg, negLit,
           encMap, usagePage, encUnit, flags, item, arg, lit, out, error, pc,
           ret, val, prog, vocab, writer, prev >>

(***************************************************************************)
(* 32-bit arithmetic on <<hi, lo>> pairs.                                  *)
(***************************************************************************)

U32(x) == << x \div 65536, x % 65536 >>

RECURSIVE And16(_, _, _)
And16(a, b, k) ==
    IF k = 0 THEN 0
    ELSE (a % 2) * (b % 2) + 2 * And16(a \div 2, b \div 2, k - 1)

Or32(a, b) ==
    << a[1] + b[1] - And16(a[1], b[1], 16), a[2] + b[2] - And16(a[2], b[2], 16) >>

AndNot32(a, b) ==
    << a[1] - And16(a[1], b[1], 16), a[2] - And16(a[2], b[2], 16) >>

Lt32(a, b) == a[1] < b[1] \/ (a[1] = b[1] /\ a[2] < b[2])

\* (v * m + d) mod 2^32 for small m, d
MulAdd32(v, m, d) ==
    LET lo == v[2] * m + d
        hi == v[1] * m + lo \div 65536
    IN  << hi % 65536, lo % 65536 >>

RECURSIVE Shl32(_, _)
Shl32(v, k) == IF k = 0 THEN v ELSE Shl32(MulAdd32(v, 2, 0), k - 1)

Add32(a, b) ==
    LET lo == a[2] + b[2]
        hi == a[1] + b[1] + lo \div 65536
    IN  << hi % 65536, lo % 65536 >>

\* two's complement negation, wrapping
Neg32(v) == MulAdd32(<< 65535 - v[1], 65535 - v[2] >>, 1, 1)

IsNeg32(v) == v[1] >= 32768

IntMin32 == << 32768, 0 >>

(***************************************************************************)
(* Sinks.  A writer is [kind, size, data, pos].  data is the memory of a   *)
(* BufferWriter: its size bytes and the byte behind them; Untouched is a   *)
(* byte no write has stored to.  The other kinds have no memory.           *)
(***************************************************************************)
Untouched == -1

\* NullWriter()
NullWriter == [kind |-> "NullWriter", size |-> 0, data |-> << >>, pos |-> 0]

\* SizeEstimator()
SizeEstimator == [kind |-> "SizeEstimator", size |-> 0, data |-> << >>, pos |-> 0]

\* BufferWriter(d, s)
BufferWriter(s) ==
    [kind |-> "BufferWriter", size |-> s, data |-> [k \in 1..(s + 1) |-> Untouched], pos |-> 0]

\* getPosition()
getPosition(w) == IF w.kind = "NullWriter" THEN 0 ELSE w.pos

\* mutation of write: the test for a full buffer is off by one
writeOffByOne(w, b) ==
    IF w.kind = "NullWriter" THEN [writer |-> w, ret |-> TRUE]
    ELSE IF w.kind = "SizeEstimator" THEN [writer |-> [w EXCEPT !.pos = @ + 1], ret |-> TRUE]
    ELSE IF w.pos > w.size THEN [writer |-> w, ret |-> FALSE]
    ELSE [writer |-> [w EXCEPT !.data[w.pos + 1] = b, !.pos = @ + 1], ret |-> TRUE]

\* write(val): the writer after the call and the value returned
write(w, b) ==
    IF w.kind = "NullWriter" THEN [writer |-> w, ret |-> TRUE]
    ELSE IF w.kind = "SizeEstimator" THEN [writer |-> [w EXCEPT !.pos = @ + 1], ret |-> TRUE]
    ELSE IF w.pos >= w.size THEN [writer |-> w, ret |-> FALSE]
    ELSE [writer |-> [w EXCEPT !.data[w.pos + 1] = b, !.pos = @ + 1], ret |-> TRUE]

\* the writer after out.write was called with each of these bytes in turn;
\* the values returned are not looked at
RECURSIVE writeAll(_, _)
writeAll(w, bytes) ==
    IF bytes = << >> THEN w ELSE writeAll(write(w, Head(bytes)).writer, Tail(bytes))

(***************************************************************************)
(* Integer codec.                                                          *)
(***************************************************************************)
encodedSize(v) ==
    IF Lt32(U32(65535), v) THEN 4
    ELSE IF Lt32(U32(255), v) THEN 2
    ELSE 1

\* (val < 0) ? -val - 1 : val, computed wrapping
AbsVal(v) == IF IsNeg32(v) THEN Add32(Neg32(v), << 65535, 65535 >>) ELSE v

\* -val is a signed overflow exactly for the least int32_t
NegOverflows(v) == v = IntMin32

encodedSizeSigned(v) ==
    IF Lt32(U32(32767), AbsVal(v)) THEN 4
    ELSE IF Lt32(U32(127), AbsVal(v)) THEN 2
    ELSE 1

encodedSizeValue(len) ==
    CASE len = 4 -> 3
      [] len = 2 -> 2
      [] len = 1 -> 1
      [] OTHER   -> 0

\* the bytes out.write receives: val & 0xFF, (val >> 8) & 0xFF, ...
encodeValue(o, v, len) ==
    LET b0 == v[2] % 256
        b1 == v[2] \div 256
        b2 == v[1] % 256
        b3 == v[1] \div 256
    IN  IF len > 1
        THEN IF len > 2 THEN o \o << b0, b1, b2, b3 >> ELSE o \o << b0, b1 >>
        ELSE o \o << b0 >>

encodeUnsigned(o, v) == encodeValue(o, v, encodedSize(v))

\* uint32_t(int16_t(val)) and uint32_t(int8_t(val)): truncate, then sign-extend
SignExtend(v, bits) ==
    LET m   == IF bits = 8 THEN 256 ELSE 65536
        low == v[2] % m
    IN  IF low >= m \div 2 THEN << 65535, 65536 - m + low >> ELSE << 0, low >>

encodeSigned(o, v) ==
    IF Lt32(U32(32767), AbsVal(v)) THEN encodeValue(o, v, 4)
    ELSE IF Lt32(U32(127), AbsVal(v)) THEN encodeValue(o, SignExtend(v, 16), 2)
    ELSE encodeValue(o, SignExtend(v, 8), 1)

(***************************************************************************)
(* Encoding tables.  An entry is [name, value, arg]: name is the token     *)
(* name as bytes, arg names the child table ("NULL" for none).  A table is *)
(* the sequence of its entries; endOfMap is the end of the sequence.  The  *)
(* sentinel tables numArg, signedNumArg, clearArg, usageArg and endCol are *)
(* empty and told apart by name, as the code tells them apart by address.  *)
(***************************************************************************)
colArgMap == <<
    [name |-> << 80, 104, 121, 115, 105, 99, 97, 108 >>, value |-> 0, arg |-> "NULL"],   \* Physical
    [name |-> << 65, 112, 112, 108, 105, 99, 97, 116, 105, 111, 110 >>, value |-> 1, arg |-> "NULL"],   \* Application
    [name |-> << 76, 111, 103, 105, 99, 97, 108 >>, value |-> 2, arg |-> "NULL"],   \* Logical
    [name |-> << 82, 101, 112, 111, 114, 116 >>, value |-> 3, arg |-> "NULL"],   \* Report
    [name |-> << 78, 97, 109, 101, 100, 65, 114, 114, 97, 121 >>, value |-> 4, arg |-> "NULL"],   \* NamedArray
    [name |-> << 85, 115, 97, 103, 101, 83, 119, 105, 116, 99, 104 >>, value |-> 5, arg |-> "NULL"],   \* UsageSwitch
    [name |-> << 85, 115, 97, 103, 101, 77, 111, 100, 105, 102, 105, 101, 114 >>, value |-> 6, arg |-> "NULL"]    \* UsageModifier
>>

inputArgMap == <<
    [name |-> << 68, 97, 116, 97 >>, value |-> 1, arg |-> "clearArg"],   \* Data
    [name |-> << 67, 110, 115, 116 >>, value |-> 1, arg |-> "NULL"],   \* Cnst
    [name |-> << 65, 114, 121 >>, value |-> 2, arg |-> "clearArg"],   \* Ary
    [name |-> << 86, 97, 114 >>, value |-> 2, arg |-> "NULL"],   \* Var
    [name |-> << 65, 98, 115 >>, value |-> 4, arg |-> "clearArg"],   \* Abs
    [name |-> << 82, 101, 108 >>, value |-> 4, arg |-> "NULL"],   \* Rel
    [name |-> << 78, 87, 97, 114, 112 >>, value |-> 8, arg |-> "clearArg"],   \* NWarp
    [name |-> << 87, 97, 114, 112 >>, value |-> 8, arg |-> "NULL"],   \* Warp
    [name |-> << 76, 105, 110 >>, value |-> 16, arg |-> "clearArg"],   \* Lin
    [name |-> << 78, 76, 105, 110 >>, value |-> 16, arg |-> "NULL"],   \* NLin
    [name |-> << 80, 114, 102 >>, value |-> 32, arg |-> "clearArg"],   \* Prf
    [name |-> << 78, 80, 114, 102 >>, value |-> 32, arg |-> "NULL"],   \* NPrf
    [name |-> << 78, 78, 117, 108, 108 >>, value |-> 64, arg |-> "clearArg"],   \* NNull
    [name |-> << 78, 117, 108, 108 >>, value |-> 64, arg |-> "NULL"],   \* Null
    [name |-> << 66, 105, 116 >>, value |-> 256, arg |-> "clearArg"],   \* Bit
    [name |-> << 66, 117, 102 >>, value |-> 256, arg |-> "NULL"]    \* Buf
>>

outputFeatureArgMap == <<
    [name |-> << 68, 97, 116, 97 >>, value |-> 1, arg |-> "clearArg"],   \* Data
    [name |-> << 67, 110, 115, 116 >>, value |-> 1, arg |-> "NULL"],   \* Cnst
    [name |-> << 65, 114, 121 >>, value |-> 2, arg |-> "clearArg"],   \* Ary
    [name |-> << 86, 97, 114 >>, value |-> 2, arg |-> "NULL"],   \* Var
    [name |-> << 65, 98, 115 >>, value |-> 4, arg |-> "clearArg"],   \* Abs
    [name |-> << 82, 101, 108 >>, value |-> 4, arg |-> "NULL"],   \* Rel
    [name |-> << 78, 87, 97, 114, 112 >>, value |-> 8, arg |-> "clearArg"],   \* NWarp
    [name |-> << 87, 97, 114, 112 >>, value |-> 8, arg |-> "NULL"],   \* Warp
    [name |-> << 76, 105, 110 >>, value |-> 16, arg |-> "clearArg"],   \* Lin
    [name |-> << 78, 76, 105, 110 >>, value |-> 16, arg |-> "NULL"],   \* NLin
    [name |-> << 80, 114, 102 >>, value |-> 32, arg |-> "clearArg"],   \* Prf
    [name |-> << 78, 80, 114, 102 >>, value |-> 32, arg |-> "NULL"],   \* NPrf
    [name |-> << 78, 78, 117, 108, 108 >>, value |-> 64, arg |-> "clearArg"],   \* NNull
    [name |-> << 78, 117, 108, 108 >>, value |-> 64, arg |-> "NULL"],   \* Null
    [name |-> << 78, 86, 111, 108 >>, value |-> 128, arg |-> "clearArg"],   \* NVol
    [name |-> << 86, 111, 108 >>, value |-> 128, arg |-> "NULL"],   \* Vol
    [name |-> << 66, 105, 116 >>, value |-> 256, arg |-> "clearArg"],   \* Bit
    [name |-> << 66, 117, 102 >>, value |-> 256, arg |-> "NULL"]    \* Buf
>>

unitExpMap == <<
    [name |-> << 48 >>, value |-> 0, arg |-> "NULL"],   \* 0
    [name |-> << 49 >>, value |-> 1, arg |-> "NULL"],   \* 1
    [name |-> << 50 >>, value |-> 2, arg |-> "NULL"],   \* 2
    [name |-> << 51 >>, value |-> 3, arg |-> "NULL"],   \* 3
    [name |-> << 52 >>, value |-> 4, arg |-> "NULL"],   \* 4
    [name |-> << 53 >>, value |-> 5, arg |-> "NULL"],   \* 5
    [name |-> << 54 >>, value |-> 6, arg |-> "NULL"],   \* 6
    [name |-> << 55 >>, value |-> 7, arg |-> "NULL"],   \* 7
    [name |-> << 45, 56 >>, value |-> 8, arg |-> "NULL"],   \* -8
    [name |-> << 45, 55 >>, value |-> 9, arg |-> "NULL"],   \* -7
    [name |-> << 45, 54 >>, value |-> 10, arg |-> "NULL"],   \* -6
    [name |-> << 45, 53 >>, value |-> 11, arg |-> "NULL"],   \* -5
    [name |-> << 45, 52 >>, value |-> 12, arg |-> "NULL"],   \* -4
    [name |-> << 45, 51 >>, value |-> 13, arg |-> "NULL"],   \* -3
    [name |-> << 45, 50 >>, value |-> 14, arg |-> "NULL"],   \* -2
    [name |-> << 45, 49 >>, value |-> 15, arg |-> "NULL"]    \* -1
>>

unitMap == <<
    [name |-> << 76, 101, 110, 103, 116, 104 >>, value |-> 1, arg |-> "unitExpMap"],   \* Length
    [name |-> << 77, 97, 115, 115 >>, value |-> 2, arg |-> "unitExpMap"],   \* Mass
    [name |-> << 84, 105, 109, 101 >>, value |-> 3, arg |-> "unitExpMap"],   \* Time
    [name |-> << 84, 101, 109, 112 >>, value |-> 4, arg |-> "unitExpMap"],   \* Temp
    [name |-> << 67, 117, 114, 114, 101, 110, 116 >>, value |-> 5, arg |-> "unitExpMap"],   \* Current
    [name |-> << 76, 117, 109, 105, 110, 111, 117, 115 >>, value |-> 6, arg |-> "unitExpMap"]    \* Luminous
>>

unitSystemMap == <<
    [name |-> << 78, 111, 110, 101 >>, value |-> 0, arg |-> "unitMap"],   \* None
    [name |-> << 83, 105, 76, 105, 110 >>, value |-> 1, arg |-> "unitMap"],   \* SiLin
    [name |-> << 83, 105, 82, 111, 116 >>, value |-> 2, arg |-> "unitMap"],   \* SiRot
    [name |-> << 69, 110, 103, 76, 105, 110 >>, value |-> 3, arg |-> "unitMap"],   \* EngLin
    [name |-> << 69, 110, 103, 82, 111, 116 >>, value |-> 4, arg |-> "unitMap"]    \* EngRot
>>

delimMap == <<
    [name |-> << 67, 108, 111, 115, 101 >>, value |-> 0, arg |-> "NULL"],   \* Close
    [name |-> << 79, 112, 101, 110 >>, value |-> 1, arg |-> "NULL"]    \* Open
>>

usagePageMap == <<
    [name |-> << 71, 101, 110, 101, 114, 105, 99, 68, 101, 115, 107, 116, 111, 112 >>, value |-> 1, arg |-> "genDeskMap"],   \* GenericDesktop
    [name |-> << 83, 105, 109, 117, 108, 97, 116, 105, 111, 110, 67, 111, 110, 116, 114, 111, 108, 115 >>, value |-> 2, arg |-> "simCtrlMap"],   \* SimulationControls
    [name |-> << 86, 114, 67, 111, 110, 116, 114, 111, 108, 115 >>, value |-> 3, arg |-> "vrCtrlMap"],   \* VrControls
    [name |-> << 83, 112, 111, 114, 116, 67, 111, 110, 116, 114, 111, 108, 115 >>, value |-> 4, arg |-> "sportCtrlMap"],   \* SportControls
    [name |-> << 71, 97, 109, 101, 67, 111, 110, 116, 114, 111, 108, 115 >>, value |-> 5, arg |-> "gameCtrlMap"],   \* GameControls
    [name |-> << 71, 101, 110, 101, 114, 105, 99, 68, 101, 118, 105, 99, 101, 67, 111, 110, 116, 114, 111, 108, 115 >>, value |-> 6, arg |-> "genDevCtrlMap"],   \* GenericDeviceControls
    [name |-> << 75, 101, 121, 98, 111, 97, 114, 100 >>, value |-> 7, arg |-> "keyboardMap"],   \* Keyboard
    [name |-> << 76, 101, 100 >>, value |-> 8, arg |-> "ledMap"],   \* Led
    [name |-> << 66, 117, 116, 116, 111, 110 >>, value |-> 9, arg |-> "buttonMap"],   \* Button
    [name |-> << 79, 114, 100, 105, 110, 97, 108 >>, value |-> 10, arg |-> "ordinalMap"],   \* Ordinal
    [name |-> << 84, 101, 108, 101, 112, 104, 111, 110, 121, 68, 101, 118, 105, 99, 101 >>, value |-> 11, arg |-> "telDevMap"],   \* TelephonyDevice
    [name |-> << 67, 111, 110, 115, 117, 109, 101, 114 >>, value |-> 12, arg |-> "consumerMap"],   \* Consumer
    [name |-> << 68, 105, 103, 105, 116, 105, 122, 101, 114, 115 >>, value |-> 13, arg |-> "digitizersMap"],   \* Digitizers
    [name |-> << 72, 97, 112, 116, 105, 99, 115 >>, value |-> 14, arg |-> "hapticsMap"],   \* Haptics
    [name |-> << 80, 105, 100 >>, value |-> 15, arg |-> "pidMap"],   \* Pid
    [name |-> << 85, 110, 105, 99, 111, 100, 101 >>, value |-> 16, arg |-> "unicodeMap"],   \* Unicode
    [name |-> << 69, 121, 101, 65, 110, 100, 72, 101, 97, 100, 84, 114, 97, 99, 107, 101, 114, 115 >>, value |-> 18, arg |-> "eyeHeadMap"],   \* EyeAndHeadTrackers
    [name |-> << 65, 117, 120, 105, 108, 105, 97, 114, 121, 68, 105, 115, 112, 108, 97, 121 >>, value |-> 20, arg |-> "auxDisplayMap"],   \* AuxiliaryDisplay
    [name |-> << 83, 101, 110, 115, 111, 114, 115 >>, value |-> 32, arg |-> "sensorMap"],   \* Sensors
    [name |-> << 77, 101, 100, 105, 97, 99, 97, 108, 73, 110, 115, 116, 114, 117, 109, 101, 110, 116 >>, value |-> 64, arg |-> "medInstMap"],   \* MediacalInstrument
    [name |-> << 66, 114, 97, 105, 108, 108, 101, 68, 105, 115, 112, 108, 97, 121 >>, value |-> 65, arg |-> "brailleMap"],   \* BrailleDisplay
    [name |-> << 76, 105, 103, 104, 116, 105, 110, 103, 65, 110, 100, 73, 108, 108, 117, 109, 105, 110, 97, 116, 105, 111, 110 >>, value |-> 89, arg |-> "lightMap"],   \* LightingAndIllumination
    [name |-> << 77, 111, 110, 105, 116, 111, 114 >>, value |-> 128, arg |-> "monitorMap"],   \* Monitor
    [name |-> << 77, 111, 110, 105, 116, 111, 114, 69, 110, 117, 109, 101, 114, 97, 116, 101, 100, 86, 97, 108, 117, 101, 115 >>, value |-> 129, arg |-> "monitorEnumMap"],   \* MonitorEnumeratedValues
    [name |-> << 86, 101, 115, 97, 86, 105, 114, 116, 117, 97, 108, 67, 111, 110, 116, 114, 111, 108, 115 >>, value |-> 130, arg |-> "vesaCtrlMap"],   \* VesaVirtualControls
    [name |-> << 80, 111, 119, 101, 114 >>, value |-> 132, arg |-> "pwrDevMap"],   \* Power
    [name |-> << 66, 97, 114, 67, 111, 100, 101, 83, 99, 97, 110, 110, 101, 114 >>, value |-> 140, arg |-> "barcodeMap"],   \* BarCodeScanner
    [name |-> << 87, 101, 105, 103, 104, 105, 110, 103, 68, 101, 118, 105, 99, 101, 115 >>, value |-> 141, arg |-> "weightDevMap"],   \* WeighingDevices
    [name |-> << 77, 97, 103, 110, 101, 116, 105, 99, 83, 116, 114, 105, 112, 101, 82, 101, 97, 100, 101, 114, 68, 101, 118, 105, 99, 101, 115 >>, value |-> 142, arg |-> "msrMap"],   \* MagneticStripeReaderDevices
    [name |-> << 67, 97, 109, 101, 114, 97, 67, 111, 110, 116, 114, 111, 108 >>, value |-> 144, arg |-> "cameraCtrlMap"],   \* CameraControl
    [name |-> << 65, 114, 99, 97, 100, 101 >>, value |-> 145, arg |-> "arcadeMap"],   \* Arcade
    [name |-> << 71, 97, 109, 105, 110, 103, 68, 101, 118, 105, 99, 101 >>, value |-> 146, arg |-> "NULL"],   \* GamingDevice
    [name |-> << 70, 105, 100, 111, 65, 108, 108, 105, 97, 110, 99, 101 >>, value |-> 61904, arg |-> "fidoMap"]    \* FidoAlliance
>>

itemMap == <<
    [name |-> << 73, 110, 112, 117, 116 >>, value |-> 128, arg |-> "inputArgMap"],   \* Input
    [name |-> << 79, 117, 116, 112, 117, 116 >>, value |-> 144, arg |-> "outputFeatureArgMap"],   \* Output
    [name |-> << 70, 101, 97, 116, 117, 114, 101 >>, value |-> 176, arg |-> "outputFeatureArgMap"],   \* Feature
    [name |-> << 67, 111, 108, 108, 101, 99, 116, 105, 111, 110 >>, value |-> 160, arg |-> "colArgMap"],   \* Collection
    [name |-> << 69, 110, 100, 67, 111, 108, 108, 101, 99, 116, 105, 111, 110 >>, value |-> 192, arg |-> "endCol"],   \* EndCollection
    [name |-> << 85, 115, 97, 103, 101, 80, 97, 103, 101 >>, value |-> 4, arg |-> "usagePageMap"],   \* UsagePage
    [name |-> << 76, 111, 103, 105, 99, 97, 108, 77, 105, 110, 105, 109, 117, 109 >>, value |-> 20, arg |-> "signedNumArg"],   \* LogicalMinimum
    [name |-> << 76, 111, 103, 105, 99, 97, 108, 77, 97, 120, 105, 109, 117, 109 >>, value |-> 36, arg |-> "signedNumArg"],   \* LogicalMaximum
    [name |-> << 80, 104, 121, 115, 105, 99, 97, 108, 77, 105, 110, 105, 109, 117, 109 >>, value |-> 52, arg |-> "signedNumArg"],   \* PhysicalMinimum
    [name |-> << 80, 104, 121, 115, 105, 99, 97, 108, 77, 97, 120, 105, 109, 117, 109 >>, value |-> 68, arg |-> "signedNumArg"],   \* PhysicalMaximum
    [name |-> << 85, 110, 105, 116, 69, 120, 112, 111, 110, 101, 110, 116 >>, value |-> 84, arg |-> "unitExpMap"],   \* UnitExponent
    [name |-> << 85, 110, 105, 116 >>, value |-> 100, arg |-> "unitSystemMap"],   \* Unit
    [name |-> << 82, 101, 112, 111, 114, 116, 83, 105, 122, 101 >>, value |-> 116, arg |-> "numArg"],   \* ReportSize
    [name |-> << 82, 101, 112, 111, 114, 116, 73, 100 >>, value |-> 132, arg |-> "numArg"],   \* ReportId
    [name |-> << 82, 101, 112, 111, 114, 116, 67, 111, 117, 110, 116 >>, value |-> 148, arg |-> "numArg"],   \* ReportCount
    [name |-> << 80, 117, 115, 104 >>, value |-> 164, arg |-> "NULL"],   \* Push
    [name |-> << 80, 111, 112 >>, value |-> 180, arg |-> "NULL"],   \* Pop
    [name |-> << 85, 115, 97, 103, 101 >>, value |-> 8, arg |-> "usageArg"],   \* Usage
    [name |-> << 85, 115, 97, 103, 101, 77, 105, 110, 105, 109, 117, 109 >>, value |-> 24, arg |-> "usageArg"],   \* UsageMinimum
    [name |-> << 85, 115, 97, 103, 101, 77, 97, 120, 105, 109, 117, 109 >>, value |-> 40, arg |-> "usageArg"],   \* UsageMaximum
    [name |-> << 68, 101, 115, 105, 103, 110, 97, 116, 111, 114, 73, 110, 100, 101, 120 >>, value |-> 56, arg |-> "numArg"],   \* DesignatorIndex
    [name |-> << 68, 101, 115, 105, 103, 110, 97, 116, 111, 114, 77, 105, 110, 105, 109, 117, 109 >>, value |-> 72, arg |-> "numArg"],   \* DesignatorMinimum
    [name |-> << 68, 101, 115, 105, 103, 110, 97, 116, 111, 114, 77, 97, 120, 105, 109, 117, 109 >>, value |-> 88, arg |-> "numArg"],   \* DesignatorMaximum
    [name |-> << 83, 116, 114, 105, 110, 103, 73, 110, 100, 101, 120 >>, value |-> 120, arg |-> "numArg"],   \* StringIndex
    [name |-> << 83, 116, 114, 105, 110, 103, 77, 105, 110, 105, 109, 117, 109 >>, value |-> 136, arg |-> "numArg"],   \* StringMinimum
    [name |-> << 83, 116, 114, 105, 110, 103, 77, 97, 120, 105, 109, 117, 109 >>, value |-> 152, arg |-> "numArg"],   \* StringMaximum
    [name |-> << 68, 101, 108, 105, 109, 105, 116, 101, 114 >>, value |-> 168, arg |-> "delimMap"]    \* Delimiter
>>

\* The usage tables of the usage pages.  The tables with at most four entries
\* are complete; of each longer table the first three entries are kept.
usageMaps(t) ==
    CASE t = "genDeskMap" -> <<
        [name |-> << 80, 111, 105, 110, 116, 101, 114 >>, value |-> 1, arg |-> "NULL"],   \* Pointer
        [name |-> << 77, 111, 117, 115, 101 >>, value |-> 2, arg |-> "NULL"],   \* Mouse
        [name |-> << 74, 111, 121, 115, 116, 105, 99, 107 >>, value |-> 4, arg |-> "NULL"]    \* Joystick
        >>
      [] t = "simCtrlMap" -> <<
        [name |-> << 70, 108, 105, 103, 104, 83, 105, 109, 117, 108, 97, 116, 105, 111, 110, 68, 101, 118, 105, 99, 101 >>, value |-> 1, arg |-> "NULL"],   \* FlighSimulationDevice
        [name |-> << 65, 117, 116, 111, 109, 111, 98, 105, 108, 101, 83, 105, 109, 117, 108, 97, 116, 105, 111, 110, 68, 101, 118, 105, 99, 101 >>, value |-> 2, arg |-> "NULL"],   \* AutomobileSimulationDevice
        [name |-> << 84, 97, 110, 107, 83, 105, 109, 117, 108, 97, 116, 105, 111, 110, 68, 101, 118, 105, 99, 101 >>, value |-> 3, arg |-> "NULL"]    \* TankSimulationDevice
        >>
      [] t = "vrCtrlMap" -> <<
        [name |-> << 66, 101, 108, 116 >>, value |-> 1, arg |-> "NULL"],   \* Belt
        [name |-> << 66, 111, 100, 121, 83, 117, 105, 116 >>, value |-> 2, arg |-> "NULL"],   \* BodySuit
        [name |-> << 70, 108, 101, 120, 111, 114 >>, value |-> 3, arg |-> "NULL"]    \* Flexor
        >>
      [] t = "sportCtrlMap" -> <<
        [name |-> << 66, 97, 115, 101, 98, 97, 108, 108, 66, 97, 116 >>, value |-> 1, arg |-> "NULL"],   \* BaseballBat
        [name |-> << 71, 111, 108, 102, 66, 97, 116 >>, value |-> 2, arg |-> "NULL"],   \* GolfBat
        [name |-> << 82, 111, 119, 105, 110, 103, 77, 97, 99, 104, 105, 110, 101 >>, value |-> 3, arg |-> "NULL"]    \* RowingMachine
        >>
      [] t = "gameCtrlMap" -> <<
        [name |-> << 51, 100, 71, 97, 109, 101, 67, 111, 110, 116, 114, 111, 108, 108, 101, 114 >>, value |-> 1, arg |-> "NULL"],   \* 3dGameController
        [name |-> << 80, 105, 110, 98, 97, 108, 108, 68, 101, 118, 105, 99, 101 >>, value |-> 2, arg |-> "NULL"],   \* PinballDevice
        [name |-> << 71, 117, 110, 68, 101, 118, 105, 99, 101 >>, value |-> 3, arg |-> "NULL"]    \* GunDevice
        >>
      [] t = "genDevCtrlMap" -> <<
        [name |-> << 66, 97, 99, 107, 103, 114, 111, 117, 110, 100, 78, 111, 110, 117, 115, 101, 114, 67, 111, 110, 116, 114, 111, 108, 115 >>, value |-> 6, arg |-> "NULL"],   \* BackgroundNonuserControls
        [name |-> << 66, 97, 116, 116, 101, 114, 121, 83, 116, 114, 101, 110, 103, 116, 104 >>, value |-> 32, arg |-> "NULL"],   \* BatteryStrength
        [name |-> << 87, 105, 114, 101, 108, 101, 115, 115, 67, 104, 97, 110, 110, 101, 108 >>, value |-> 33, arg |-> "NULL"]    \* WirelessChannel
        >>
      [] t = "keyboardMap" -> <<
        [name |-> << 78, 111, 69, 118, 101, 110, 116, 73, 110, 100, 105, 99, 97, 116, 101, 100 >>, value |-> 0, arg |-> "NULL"],   \* NoEventIndicated
        [name |-> << 75, 101, 121, 98, 111, 97, 114, 100, 69, 114, 114, 111, 114, 82, 111, 108, 108, 79, 118, 101, 114 >>, value |-> 1, arg |-> "NULL"],   \* KeyboardErrorRollOver
        [name |-> << 75, 101, 121, 98, 111, 97, 114, 100, 80, 111, 115, 116, 70, 97, 105, 108 >>, value |-> 2, arg |-> "NULL"]    \* KeyboardPostFail
        >>
      [] t = "ledMap" -> <<
        [name |-> << 78, 117, 109, 76, 111, 99, 107 >>, value |-> 1, arg |-> "NULL"],   \* NumLock
        [name |-> << 67, 97, 112, 115, 76, 111, 99, 107 >>, value |-> 2, arg |-> "NULL"],   \* CapsLock
        [name |-> << 83, 99, 114, 111, 108, 108, 76, 111, 99, 107 >>, value |-> 3, arg |-> "NULL"]    \* ScrollLock
        >>
      [] t = "buttonMap" -> <<
        [name |-> << 78, 111, 66, 117, 116, 116, 111, 110, 80, 114, 101, 115, 115, 101, 100 >>, value |-> 0, arg |-> "NULL"],   \* NoButtonPressed
        [name |-> << 66, 117, 116, 116, 111, 110, 35 >>, value |-> 1, arg |-> "NULL"],   \* Button#
        [name |-> << 66, 117, 116, 116, 111, 110, 35 >>, value |-> 65535, arg |-> "NULL"]    \* Button#
        >>
      [] t = "ordinalMap" -> <<
        [name |-> << 73, 110, 115, 116, 97, 110, 99, 101, 35 >>, value |-> 1, arg |-> "NULL"],   \* Instance#
        [name |-> << 73, 110, 115, 116, 97, 110, 99, 101, 35 >>, value |-> 65535, arg |-> "NULL"]    \* Instance#
        >>
      [] t = "telDevMap" -> <<
        [name |-> << 80, 104, 111, 110, 101 >>, value |-> 1, arg |-> "NULL"],   \* Phone
        [name |-> << 65, 110, 115, 119, 101, 114, 105, 110, 103, 77, 97, 99, 104, 105, 110, 101 >>, value |-> 2, arg |-> "NULL"],   \* AnsweringMachine
        [name |-> << 77, 101, 115, 115, 97, 103, 101, 67, 111, 110, 116, 114, 111, 108, 115 >>, value |-> 3, arg |-> "NULL"]    \* MessageControls
        >>
      [] t = "consumerMap" -> <<
        [name |-> << 67, 111, 110, 115, 117, 109, 101, 114, 67, 111, 110, 116, 114, 111, 108 >>, value |-> 1, arg |-> "NULL"],   \* ConsumerControl
        [name |-> << 78, 117, 109, 101, 114, 105, 99, 75, 101, 121, 80, 97, 100 >>, value |-> 2, arg |-> "NULL"],   \* NumericKeyPad
        [name |-> << 80, 114, 111, 103, 114, 97, 109, 109, 97, 98, 108, 101, 66, 117, 116, 116, 111, 110, 115 >>, value |-> 3, arg |-> "NULL"]    \* ProgrammableButtons
        >>
      [] t = "digitizersMap" -> <<
        [name |-> << 68, 105, 103, 105, 116, 105, 122, 101, 114 >>, value |-> 1, arg |-> "NULL"],   \* Digitizer
        [name |-> << 80, 101, 110 >>, value |-> 2, arg |-> "NULL"],   \* Pen
        [name |-> << 76, 105, 103, 104, 116, 80, 101, 110 >>, value |-> 3, arg |-> "NULL"]    \* LightPen
        >>
      [] t = "hapticsMap" -> <<
        [name |-> << 83, 105, 109, 112, 108, 101, 72, 97, 112, 116, 105, 99, 67, 111, 110, 116, 114, 111, 108, 108, 101, 114 >>, value |-> 1, arg |-> "NULL"],   \* SimpleHapticController
        [name |-> << 87, 97, 118, 101, 102, 111, 114, 109, 76, 105, 115, 116 >>, value |-> 16, arg |-> "NULL"],   \* WaveformList
        [name |-> << 68, 117, 114, 97, 116, 105, 111, 110, 76, 105, 115, 116 >>, value |-> 17, arg |-> "NULL"]    \* DurationList
        >>
      [] t = "pidMap" -> <<
        [name |-> << 80, 104, 121, 115, 105, 99, 97, 108, 73, 110, 116, 101, 114, 102, 97, 99, 101, 68, 101, 118, 105, 99, 101 >>, value |-> 1, arg |-> "NULL"],   \* PhysicalInterfaceDevice
        [name |-> << 78, 111, 114, 109, 97, 108 >>, value |-> 32, arg |-> "NULL"],   \* Normal
        [name |-> << 83, 101, 116, 69, 102, 102, 101, 99, 116, 82, 101, 112, 111, 114, 116 >>, value |-> 33, arg |-> "NULL"]    \* SetEffectReport
        >>
      [] t = "unicodeMap" -> <<
        [name |-> << 85, 99, 115, 35 >>, value |-> 0, arg |-> "NULL"],   \* Ucs#
        [name |-> << 85, 99, 115, 35 >>, value |-> 65535, arg |-> "NULL"]    \* Ucs#
        >>
      [] t = "eyeHeadMap" -> <<
        [name |-> << 69, 121, 101, 84, 114, 97, 99, 107, 101, 114 >>, value |-> 1, arg |-> "NULL"],   \* EyeTracker
        [name |-> << 72, 101, 97, 100, 84, 114, 97, 99, 107, 101, 114 >>, value |-> 2, arg |-> "NULL"],   \* HeadTracker
        [name |-> << 84, 114, 97, 99, 107, 105, 110, 103, 68, 97, 116, 97 >>, value |-> 16, arg |-> "NULL"]    \* TrackingData
        >>
      [] t = "auxDisplayMap" -> <<
        [name |-> << 65, 108, 112, 104, 97, 110, 117, 109, 101, 114, 105, 99, 68, 105, 115, 112, 108, 97, 121 >>, value |-> 1, arg |-> "NULL"],   \* AlphanumericDisplay
        [name |-> << 65, 117, 120, 105, 108, 105, 97, 114, 121, 68, 105, 115, 112, 108, 97, 121 >>, value |-> 2, arg |-> "NULL"],   \* AuxiliaryDisplay
        [name |-> << 68, 105, 115, 112, 108, 97, 121, 65, 116, 116, 114, 105, 98, 117, 116, 101, 115, 82, 101, 112, 111, 114, 116 >>, value |-> 32, arg |-> "NULL"]    \* DisplayAttributesReport
        >>
      [] t = "sensorMap" -> <<
        [name |-> << 83, 101, 110, 115, 111, 114 >>, value |-> 1, arg |-> "NULL"],   \* Sensor
        [name |-> << 66, 105, 111, 109, 101, 116, 114, 105, 99 >>, value |-> 16, arg |-> "NULL"],   \* Biometric
        [name |-> << 66, 105, 111, 109, 101, 116, 114, 105, 99, 72, 117, 109, 97, 110, 80, 114, 101, 115, 101, 110, 99, 101 >>, value |-> 17, arg |-> "NULL"]    \* BiometricHumanPresence
        >>
      [] t = "medInstMap" -> <<
        [name |-> << 77, 101, 100, 105, 99, 97, 108, 85, 108, 114, 97, 115, 111, 117, 110, 100 >>, value |-> 1, arg |-> "NULL"],   \* MedicalUlrasound
        [name |-> << 86, 99, 114, 65, 99, 113, 117, 105, 115, 105, 116, 105, 111, 110 >>, value |-> 32, arg |-> "NULL"],   \* VcrAcquisition
        [name |-> << 70, 114, 101, 101, 122, 101, 84, 104, 97, 119 >>, value |-> 33, arg |-> "NULL"]    \* FreezeThaw
        >>
      [] t = "brailleMap" -> <<
        [name |-> << 66, 114, 97, 105, 108, 108, 101, 68, 105, 115, 112, 108, 97, 121 >>, value |-> 1, arg |-> "NULL"],   \* BrailleDisplay
        [name |-> << 66, 114, 97, 105, 108, 108, 101, 82, 111, 119 >>, value |-> 2, arg |-> "NULL"],   \* BrailleRow
        [name |-> << 68, 111, 116, 56, 66, 114, 97, 105, 108, 108, 101, 67, 101, 108, 108 >>, value |-> 3, arg |-> "NULL"]    \* Dot8BrailleCell
        >>
      [] t = "lightMap" -> <<
        [name |-> << 76, 97, 109, 112, 65, 114, 114, 97, 121 >>, value |-> 1, arg |-> "NULL"],   \* LampArray
        [name |-> << 76, 97, 109, 112, 65, 114, 114, 97, 121, 65, 116, 116, 114, 105, 98, 117, 116, 101, 115, 82, 101, 112, 111, 114, 116 >>, value |-> 2, arg |-> "NULL"],   \* LampArrayAttributesReport
        [name |-> << 76, 97, 109, 112, 67, 111, 117, 110, 116 >>, value |-> 3, arg |-> "NULL"]    \* LampCount
        >>
      [] t = "monitorMap" -> <<
        [name |-> << 77, 111, 110, 105, 116, 111, 114, 67, 111, 110, 116, 114, 111, 108 >>, value |-> 1, arg |-> "NULL"],   \* MonitorControl
        [name |-> << 69, 100, 105, 100, 73, 110, 102, 111, 114, 109, 97, 116, 105, 111, 110 >>, value |-> 2, arg |-> "NULL"],   \* EdidInformation
        [name |-> << 86, 100, 105, 102, 73, 110, 102, 111, 114, 109, 97, 116, 105, 111, 110 >>, value |-> 3, arg |-> "NULL"],   \* VdifInformation
        [name |-> << 86, 101, 115, 97, 86, 101, 114, 115, 105, 111, 110 >>, value |-> 4, arg |-> "NULL"]    \* VesaVersion
        >>
      [] t = "monitorEnumMap" -> <<
        [name |-> << 69, 110, 117, 109, 35 >>, value |-> 0, arg |-> "NULL"],   \* Enum#
        [name |-> << 69, 110, 117, 109, 35 >>, value |-> 62, arg |-> "NULL"]    \* Enum#
        >>
      [] t = "vesaCtrlMap" -> <<
        [name |-> << 66, 114, 105, 103, 104, 116, 110, 101, 115, 115 >>, value |-> 16, arg |-> "NULL"],   \* Brightness
        [name |-> << 67, 111, 110, 116, 114, 97, 115, 116 >>, value |-> 18, arg |-> "NULL"],   \* Contrast
        [name |-> << 82, 101, 100, 86, 105, 100, 101, 111, 71, 97, 105, 110 >>, value |-> 22, arg |-> "NULL"]    \* RedVideoGain
        >>
      [] t = "pwrDevMap" -> <<
        [name |-> << 73, 78, 97, 109, 101 >>, value |-> 1, arg |-> "NULL"],   \* IName
        [name |-> << 80, 114, 101, 115, 101, 110, 116, 83, 116, 97, 116, 117, 115 >>, value |-> 2, arg |-> "NULL"],   \* PresentStatus
        [name |-> << 67, 104, 97, 110, 103, 101, 100, 83, 116, 97, 116, 117, 115 >>, value |-> 3, arg |-> "NULL"]    \* ChangedStatus
        >>
      [] t = "barcodeMap" -> <<
        [name |-> << 66, 97, 114, 67, 111, 100, 101, 66, 97, 100, 103, 101, 82, 101, 97, 100, 101, 114 >>, value |-> 1, arg |-> "NULL"],   \* BarCodeBadgeReader
        [name |-> << 66, 97, 114, 67, 111, 100, 101, 83, 99, 97, 110, 110, 101, 114 >>, value |-> 2, arg |-> "NULL"],   \* BarCodeScanner
        [name |-> << 68, 117, 109, 98, 66, 97, 114, 67, 111, 100, 101, 83, 99, 97, 110, 110, 101, 114 >>, value |-> 3, arg |-> "NULL"]    \* DumbBarCodeScanner
        >>
      [] t = "weightDevMap" -> <<
        [name |-> << 87, 101, 105, 103, 104, 105, 110, 103, 68, 101, 118, 105, 99, 101 >>, value |-> 1, arg |-> "NULL"],   \* WeighingDevice
        [name |-> << 83, 99, 97, 108, 101, 68, 101, 118, 105, 99, 101 >>, value |-> 32, arg |-> "NULL"],   \* ScaleDevice
        [name |-> << 83, 99, 97, 108, 101, 67, 108, 97, 115, 115 >>, value |-> 33, arg |-> "NULL"]    \* ScaleClass
        >>
      [] t = "msrMap" -> <<
        [name |-> << 77, 115, 114, 68, 101, 118, 105, 99, 101, 82, 101, 97, 100, 79, 110, 108, 121 >>, value |-> 1, arg |-> "NULL"],   \* MsrDeviceReadOnly
        [name |-> << 84, 114, 97, 99, 107, 49, 76, 101, 110, 103, 116, 104 >>, value |-> 17, arg |-> "NULL"],   \* Track1Length
        [name |-> << 84, 114, 97, 99, 107, 50, 76, 101, 110, 103, 116, 104 >>, value |-> 18, arg |-> "NULL"]    \* Track2Length
        >>
      [] t = "cameraCtrlMap" -> <<
        [name |-> << 67, 97, 109, 101, 114, 97, 65, 117, 116, 111, 70, 111, 99, 117, 115 >>, value |-> 32, arg |-> "NULL"],   \* CameraAutoFocus
        [name |-> << 67, 97, 109, 101, 114, 97, 83, 104, 117, 116, 116, 101, 114 >>, value |-> 33, arg |-> "NULL"]    \* CameraShutter
        >>
      [] t = "arcadeMap" -> <<
        [name |-> << 71, 101, 110, 101, 114, 97, 108, 80, 117, 114, 112, 111, 115, 101, 73, 111, 67, 97, 114, 100 >>, value |-> 1, arg |-> "NULL"],   \* GeneralPurposeIoCard
        [name |-> << 67, 111, 105, 110, 68, 111, 111, 114 >>, value |-> 2, arg |-> "NULL"],   \* CoinDoor
        [name |-> << 87, 97, 116, 99, 104, 100, 111, 103, 84, 105, 109, 101, 114 >>, value |-> 3, arg |-> "NULL"]    \* WatchdogTimer
        >>
      [] t = "fidoMap" -> <<
        [name |-> << 85, 50, 102, 65, 117, 116, 104, 101, 110, 116, 105, 99, 97, 116, 111, 114, 68, 101, 118, 105, 99, 101 >>, value |-> 1, arg |-> "NULL"],   \* U2fAuthenticatorDevice
        [name |-> << 73, 110, 112, 117, 116, 82, 101, 112, 111, 114, 116, 68, 97, 116, 97 >>, value |-> 32, arg |-> "NULL"],   \* InputReportData
        [name |-> << 79, 117, 116, 112, 117, 116, 82, 101, 112, 111, 114, 116, 68, 97, 116, 97 >>, value |-> 33, arg |-> "NULL"]    \* OutputReportData
        >>
      [] OTHER -> << >>

\* the table an arg pointer refers to
Map(t) ==
    CASE t = "colArgMap"           -> colArgMap
      [] t = "inputArgMap"         -> inputArgMap
      [] t = "outputFeatureArgMap" -> outputFeatureArgMap
      [] t = "unitExpMap"          -> unitExpMap
      [] t = "unitMap"             -> unitMap
      [] t = "unitSystemMap"       -> unitSystemMap
      [] t = "delimMap"            -> delimMap
      [] t = "usagePageMap"        -> usagePageMap
      [] t = "itemMap"             -> itemMap
      [] OTHER                     -> usageMaps(t)

(***************************************************************************)
(* Character classes and string helpers.                                   *)
(***************************************************************************)
toUpper(c) == IF c >= 97 /\ c <= 122 THEN c - 97 + 65 ELSE c

isComment(c) == c = 35 \/ c = 59

isWhitespace(c) == c \in {32, 9, 10, 11, 12, 13}

isAlpha(c) == (c >= 97 /\ c <= 122) \/ (c >= 65 /\ c <= 90)

isDigit(c) == c >= 48 /\ c <= 57

isHexDigit(c) == isDigit(c) \/ (c >= 97 /\ c <= 102) \/ (c >= 65 /\ c <= 70)

isItemChar(c) == c = 95 \/ isAlpha(c)

isArgChar(c) == c = 95 \/ isAlpha(c) \/ isDigit(c)

\* position of the first c in str, -1 if there is none
strFindChr(str, c) ==
    IF \E i \in 1..Len(str) : str[i] = c
    THEN (CHOOSE i \in 1..Len(str) : str[i] = c /\ \A j \in 1..(i - 1) : str[j] # c) - 1
    ELSE -1

\* equals(const Token &, const char *): the token is exactly str
equals(token, str) == token = str

\* mutation of equalsI: the case of the letters counts
equalsCaseSensitive(token, str) == token = str

\* equalsI: equal length, and equal byte by byte up to the case of letters
equalsI(token, str) ==
    /\ Len(token) = Len(str)
    /\ \A i \in 1..Len(token) : toUpper(token[i]) = toUpper(str[i])

\* startWidthIN(prefix, len, str): the first len bytes agree up to case
startWidthIN(prefix, len, str) ==
    /\ len > 0
    /\ \A i \in 1..len : i <= Len(str) /\ toUpper(prefix[i]) = toUpper(str[i])

(***************************************************************************)
(* Name resolver.  The result is [enc, error]: enc is the entry found (the *)
(* entry NullEnc for the NULL pointer), error the value left in subError.  *)
(***************************************************************************)
NullEnc == [name |-> << >>, value |-> 0, arg |-> "NULL"]

\* mutation of indexNum: the number wraps around at 2^32 unnoticed
RECURSIVE indexNumWrapping(_, _, _)
indexNumWrapping(token, i, num) ==
    IF i > Len(token) THEN [ok |-> TRUE, num |-> num, error |-> "E_NO_ERROR"]
    ELSE IF ~isDigit(token[i])
    THEN [ok |-> FALSE, num |-> num, error |-> "E_Unexpected_argument_name_character"]
    ELSE indexNumWrapping(token, i + 1, MulAdd32(num, 10, token[i] - 48))

\* the digits of an indexed name, accumulated as findEncoding does:
\* [ok, num, error]; a non-digit or a detected overflow ends the loop
RECURSIVE indexNum(_, _, _)
indexNum(token, i, num) ==
    IF i > Len(token) THEN [ok |-> TRUE, num |-> num, error |-> "E_NO_ERROR"]
    ELSE IF ~isDigit(token[i])
    THEN [ok |-> FALSE, num |-> num, error |-> "E_Unexpected_argument_name_character"]
    ELSE LET next == MulAdd32(num, 10, token[i] - 48)
         IN  IF Lt32(next, num)
             THEN [ok |-> FALSE, num |-> next, error |-> "E_Argument_index_out_of_range"]
             ELSE indexNum(token, i + 1, next)

\* the branch of findEncoding for entry map[i] whose name holds '#' at idx
indexedEncoding(token, map, i, idx) ==
    LET e   == map[i]
        r   == indexNum(token, idx + 1, U32(0))
        bad(msg) == [enc |-> NullEnc, error |-> msg]
    IN  IF idx + 1 # Len(e.name) \/ i + 1 > Len(map) \/ e.name # map[i + 1].name
        THEN bad("E_Internal_error")
        ELSE IF Len(token) <= idx \/ ~startWidthIN(e.name, idx, token)
        THEN bad("E_Invalid_argument_name")
        ELSE IF ~r.ok THEN bad(r.error)
        ELSE IF Lt32(r.num, U32(e.value)) \/ Lt32(U32(map[i + 1].value), r.num)
        THEN bad("E_Argument_index_out_of_range")
        ELSE IF r.num # U32(0) /\ token[idx + 1] = 48
        THEN bad("E_Invalid_argument_name")
        ELSE [enc |-> [name |-> e.name, value |-> r.num[2], arg |-> "NULL"],
              error |-> "E_NO_ERROR"]

RECURSIVE findFrom(_, _, _, _)
findFrom(token, map, i, subError) ==
    IF i > Len(map) THEN [enc |-> NullEnc, error |-> subError]
    ELSE IF equalsI(token, map[i].name) THEN [enc |-> map[i], error |-> "E_NO_ERROR"]
    ELSE IF i - 1 < 3 /\ strFindChr(map[i].name, 35) >= 0
    THEN indexedEncoding(token, map, i, strFindChr(map[i].name, 35))
    ELSE findFrom(token, map, i + 1, subError)

findEncoding(token, map, subError) ==
    IF Len(token) = 0 THEN [enc |-> NullEnc, error |-> subError]
    ELSE findFrom(token, map, 1, subError)

(***************************************************************************)
(* Diagnostic emitter.                                                     *)
(***************************************************************************)
\* ErrorWriter::at: the loop over source[0 .. pos)
\* (c & 0xC0) != 0x80: c is not a continuation byte of a UTF-8 character
isLeadByte(c) == (c \div 64) % 4 # 2

\* mutation of at: every byte counts as a character
atCountingBytes(src, pos, msg) ==
    [character |-> pos,
     line      |-> 1 + Cardinality({k \in 1..pos : src[k] = 10}),
     column    |-> 1 + pos,
     message   |-> msg]

\* ErrorWriter::at: the loop over source[0..pos-1] counts the characters
\* (lead bytes), the lines (1 + the '\n') and the columns (1 + the lead bytes
\* other than '\r' after the last '\n')
at(src, pos, msg) ==
    LET lastNewline == IF \E k \in 1..pos : src[k] = 10
                       THEN CHOOSE k \in 1..pos :
                                src[k] = 10 /\ \A j \in (k + 1)..pos : src[j] # 10
                       ELSE 0
    IN  [character |-> Cardinality({k \in 1..pos : isLeadByte(src[k])}),
         line      |-> 1 + Cardinality({k \in 1..pos : src[k] = 10}),
         column    |-> 1 + Cardinality({k \in (lastNewline + 1)..pos :
                                           src[k] # 13 /\ isLeadByte(src[k])}),
         message   |-> msg]

\* hid::error::Info()
Info == [character |-> 0, line |-> 0, column |-> 0, message |-> "E_NO_ERROR"]

(***************************************************************************)
(* Source::find over the parameter set of the run: the last parameter of   *)
(* the name wins.  A value is <<q, r>> = q * 2^32 + r.                      *)
(***************************************************************************)
Params == <<
    [name |-> << 97 >>, value |-> << 0, U32(1) >>],                   \* a = 1
    [name |-> << 98 >>, value |-> << 0, U32(256) >>],                 \* b = 256
    [name |-> << 99 >>, value |-> << -1, << 65535, 65535 >> >>],      \* c = -1
    [name |-> << 100 >>, value |-> << 0, << 65535, 65535 >> >>],      \* d = 4294967295
    [name |-> << 101 >>, value |-> << 1, U32(0) >>],                  \* e = 4294967296
    [name |-> << 102 >>, value |-> << -1, << 32768, 0 >> >>],         \* f = -2147483648
    [name |-> << 103 >>, value |-> << -1, << 32767, 65535 >> >>],     \* g = -2147483649
    [name |-> << 104 >>, value |-> << 0, << 32767, 65535 >> >>],      \* h = 2147483647
    [name |-> << 105 >>, value |-> << 0, << 32768, 0 >> >>],          \* i = 2147483648
    [name |-> << 97 >>, value |-> << 0, U32(0) >>]                    \* a = 0 (replaces a = 1)
>>

\* mutation of find: the case of the letters of a name does not count
findI(token) ==
    IF \E p \in 1..Len(Params) : equalsI(token, Params[p].name)
    THEN [value |-> Params[CHOOSE p \in 1..Len(Params) :
                              /\ equalsI(token, Params[p].name)
                              /\ \A k \in (p + 1)..Len(Params) : ~equalsI(token, Params[k].name)].value,
          valid |-> TRUE]
    ELSE [value |-> << 0, U32(0) >>, valid |-> FALSE]

find(token) ==
    IF \E p \in 1..Len(Params) : equals(token, Params[p].name)
    THEN [value |-> Params[CHOOSE p \in 1..Len(Params) :
                              /\ equals(token, Params[p].name)
                              /\ \A k \in (p + 1)..Len(Params) : ~equals(token, Params[k].name)].value,
          valid |-> TRUE]
    ELSE [value |-> << 0, U32(0) >>, valid |-> FALSE]

(***************************************************************************)
(* compile(): the state of a run as a record, one field per local.         *)
(***************************************************************************)
Cur == [colLevel |-> colLevel, delimLevel |-> delimLevel, usageAtLevel |-> usageAtLevel,
        reportSizes |-> reportSizes, reportCounts |-> reportCounts, n |-> n,
        tItem |-> tItem, tArg |-> tArg, hasUsagePage |-> hasUsagePage, hasArg |-> hasArg,
        multiArg |-> multiArg, negLit |-> negLit, encMap |-> encMap,
        usagePage |-> usagePage, encUnit |-> encUnit, flags |-> flags, item |-> item,
        arg |-> arg, lit |-> lit, out |-> out, error |-> error, pc |-> pc, ret |-> ret,
        cont |-> FALSE, ub |-> FALSE]

\* the bytes of a token
Tok(t) == SubSeq(source, t.start + 1, t.start + t.length)

\* mutation of Fail: the diagnostic is set and the loop goes on
FailAndGoOn(c, pos, msg) == [c EXCEPT !.error = at(source, pos, msg)]

\* return errorMsg.at(pos, msg)
Fail(c, pos, msg) == [c EXCEPT !.error = at(source, pos, msg), !.pc = "done", !.ret = FALSE]

\* the whitespace skip after an item or unit system name: the new n
RECURSIVE skipWhitespace(_)
skipWhitespace(k) ==
    IF k + 1 < Len(source) /\ isWhitespace(source[k + 2]) THEN skipWhitespace(k + 1)
    ELSE IF k + 1 < Len(source) /\ source[k + 2] = 40 THEN k + 1
    ELSE k

\* mutation of startsNegative: no byte is taken for a minus sign
startsNegativeNever(ch) == FALSE

\* START: *ptr == '-'
startsNegative(ch) == ch = 45

\* mutation of BodyStart: the look-ahead ptr[2] of the hex prefix is not held
\* inside the source, and the byte after the last byte is taken for a hex digit
BodyStartNoSizeTest(c) ==
    LET ch == source[c.n + 1]
    IN  IF isItemChar(ch)
        THEN [c EXCEPT !.flags = {"ITEM"}, !.tItem = [start |-> c.n, length |-> 1]]
        ELSE IF ch = 123
        THEN [c EXCEPT !.flags = {"PARAM"}, !.tArg = [start |-> c.n + 1, length |-> 0]]
        ELSE IF ch = 48 /\ c.n + 1 < Len(source) /\ source[c.n + 2] = 120
        THEN IF c.n + 2 < Len(source) /\ ~isHexDigit(source[c.n + 3])
             THEN Fail([c EXCEPT !.flags = {"HEX_LIT"}], c.n + 2, "E_Invalid_hex_value")
             ELSE [c EXCEPT !.flags = {"HEX_LIT"}, !.lit = U32(0), !.n = @ + 1]
        ELSE IF isDigit(ch)
        THEN [c EXCEPT !.flags = {"NUM_LIT"}, !.lit = U32(0), !.cont = TRUE]
        ELSE IF startsNegative(ch)
        THEN Fail(c, c.n, "E_Negative_numbers_are_not_allowed_in_this_context")
        ELSE IF isComment(ch) THEN [c EXCEPT !.flags = {"COMMENT"}]
        ELSE IF ~isWhitespace(ch) THEN Fail(c, c.n, "E_Unexpected_token")
        ELSE c

\* flags == HID_START
BodyStart(c) ==
    LET ch == source[c.n + 1]
    IN  IF isItemChar(ch)
        THEN [c EXCEPT !.flags = {"ITEM"}, !.tItem = [start |-> c.n, length |-> 1]]
        ELSE IF ch = 123
        THEN [c EXCEPT !.flags = {"PARAM"}, !.tArg = [start |-> c.n + 1, length |-> 0]]
        ELSE IF ch = 48 /\ c.n + 1 < Len(source) /\ source[c.n + 2] = 120
        THEN IF c.n + 2 >= Len(source)
             THEN Fail([c EXCEPT !.flags = {"HEX_LIT"}], c.n + 2, "E_Unexpected_end_of_source")
             ELSE IF ~isHexDigit(source[c.n + 3])
             THEN Fail([c EXCEPT !.flags = {"HEX_LIT"}], c.n + 2, "E_Invalid_hex_value")
             ELSE [c EXCEPT !.flags = {"HEX_LIT"}, !.lit = U32(0), !.n = @ + 1]
        ELSE IF isDigit(ch)
        THEN [c EXCEPT !.flags = {"NUM_LIT"}, !.lit = U32(0), !.cont = TRUE]
        ELSE IF startsNegative(ch)
        THEN Fail(c, c.n, "E_Negative_numbers_are_not_allowed_in_this_context")
        ELSE IF isComment(ch) THEN [c EXCEPT !.flags = {"COMMENT"}]
        ELSE IF ~isWhitespace(ch) THEN Fail(c, c.n, "E_Unexpected_token")
        ELSE c

\* mutation of BodyComment: a space ends a comment as well
BodyCommentEndsAtSpace(c) ==
    IF source[c.n + 1] = 13 \/ source[c.n + 1] = 10 \/ source[c.n + 1] = 32
    THEN [c EXCEPT !.flags = {}] ELSE c

\* _HID_WITHIN(COMMENT)
BodyComment(c) ==
    IF source[c.n + 1] = 13 \/ source[c.n + 1] = 10 THEN [c EXCEPT !.flags = {}] ELSE c

\* the range check of a parameter used as argument
paramInRange(encArg, v) ==
    IF encArg = "signedNumArg"
    THEN ~( \/ v[1] < -1 \/ (v[1] = -1 /\ ~IsNeg32(v[2]))
            \/ v[1] > 0 \/ (v[1] = 0 /\ IsNeg32(v[2])) )
    ELSE ~(v[1] < 0 \/ v[1] > 0)

\* _HID_WITHIN(PARAM)
BodyParam(c) ==
    IF source[c.n + 1] = 125
    THEN LET c1    == [c EXCEPT !.flags = @ \ {"PARAM"}]
             param == find(Tok(c.tArg))
         IN  IF ~param.valid
             THEN Fail(c1, c.n, "E_Expected_valid_parameter_name_here")
             ELSE IF "ARG_LIST" \in c1.flags
             THEN IF ~paramInRange(c.encMap.arg, param.value)
                  THEN Fail(c1, c.n, "E_Parameter_value_out_of_range")
                  ELSE [c1 EXCEPT !.arg = Or32(@, param.value[2]), !.hasArg = TRUE]
             ELSE IF param.value[1] < 0
             THEN Fail(c1, c.n, "E_Negative_numbers_are_not_allowed_in_this_context")
             ELSE IF param.value[1] > 0
             THEN Fail(c1, c.n, "E_Parameter_value_out_of_range")
             ELSE [c1 EXCEPT !.out = encodeUnsigned(@, param.value[2])]
    ELSE [c EXCEPT !.tArg.length = @ + 1]

\* mutation of collectionAllowed: a Collection needs no Usage
collectionAllowedWithoutUsage(c) == TRUE

\* mutation of collectionAllowed: any Usage seen so far satisfies the check
collectionAllowedAnyUsage(c) == c.usageAtLevel >= 0

\* Collection: the Usage-for-Collection check
collectionAllowed(c) == c.usageAtLevel = c.colLevel

\* mutation of endCollectionError: the depth test is off by one
endCollectionErrorOffByOne(c) ==
    IF c.colLevel < 0 THEN "E_Unexpected_EndCollection"
    ELSE IF c.reportSizes < c.reportCounts THEN "E_Missing_ReportSize"
    ELSE IF c.reportCounts < c.reportSizes THEN "E_Missing_ReportCount"
    ELSE ""

\* mutation of endCollectionError: the report fields are not counted
endCollectionErrorDepthOnly(c) ==
    IF c.colLevel <= 0 THEN "E_Unexpected_EndCollection" ELSE ""

\* EndCollection: "" when it is accepted, else the error
endCollectionError(c) ==
    IF c.colLevel <= 0 THEN "E_Unexpected_EndCollection"
    ELSE IF c.reportSizes < c.reportCounts THEN "E_Missing_ReportSize"
    ELSE IF c.reportCounts < c.reportSizes THEN "E_Missing_ReportCount"
    ELSE ""

\* mutation of itemBookkeeping: EndCollection leaves usageAtLevel alone
itemBookkeepingKeepsUsageLevel(c, inLoop) ==
    IF c.encMap.arg = "colArgMap"
    THEN IF ~collectionAllowed(c) THEN Fail(c, c.n, "E_Missing_Usage_for_Collection")
         ELSE [c EXCEPT !.colLevel = @ + 1]
    ELSE IF c.encMap.arg = "endCol"
    THEN IF endCollectionError(c) # "" THEN Fail(c, c.n, endCollectionError(c))
         ELSE [c EXCEPT !.colLevel = @ - 1]
    ELSE IF inLoop /\ equalsI(Tok(c.tItem), << 85, 115, 97, 103, 101 >>)
    THEN [c EXCEPT !.usageAtLevel = c.colLevel]
    ELSE c

\* the bookkeeping after the item name was resolved; c.encMap is the item.
\* inLoop tells the copy inside the loop, which has the Usage branch, from the
\* copy after the loop, which has none
itemBookkeeping(c, inLoop) ==
    IF c.encMap.arg = "colArgMap"
    THEN IF ~collectionAllowed(c) THEN Fail(c, c.n, "E_Missing_Usage_for_Collection")
         ELSE [c EXCEPT !.colLevel = @ + 1]
    ELSE IF c.encMap.arg = "endCol"
    THEN IF endCollectionError(c) # "" THEN Fail(c, c.n, endCollectionError(c))
         ELSE [c EXCEPT !.colLevel = @ - 1, !.usageAtLevel = @ - 1]
    ELSE IF inLoop /\ equalsI(Tok(c.tItem), << 85, 115, 97, 103, 101 >>)
    THEN [c EXCEPT !.usageAtLevel = c.colLevel]
    ELSE c

\* mutation of missingArgument: only a table with named entries makes the
\* argument list necessary
missingArgumentNamedOnly(enc) == enc.arg # "NULL" /\ Len(Map(enc.arg)) > 0

\* an item without argument list needs one
missingArgument(enc) ==
    enc.arg # "NULL" /\ (Len(Map(enc.arg)) > 0 \/ enc.arg = "usageArg")

\* mutation of isMultiArg: the comma is allowed in every argument list
isMultiArgAlways(enc) == TRUE

\* the comma is allowed in the argument lists of these tables only
isMultiArg(enc) == enc.arg = "inputArgMap" \/ enc.arg = "outputFeatureArgMap"

\* _HID_WITHIN(ITEM)
BodyItem(c) ==
    LET ch == source[c.n + 1]
    IN  IF isItemChar(ch) THEN [c EXCEPT !.tItem.length = @ + 1]
        ELSE IF isWhitespace(ch) \/ ch = 40
        THEN LET n1  == IF isWhitespace(ch) THEN skipWhitespace(c.n) ELSE c.n
                 ch1 == source[n1 + 1]
                 f   == findEncoding(Tok(c.tItem), itemMap, "E_Invalid_item_name")
                 c1  == [c EXCEPT !.n = n1, !.flags = @ \ {"ITEM"}, !.encMap = f.enc]
                 c2  == itemBookkeeping(c1, TRUE)
             IN  IF f.enc = NullEnc THEN Fail(c1, n1, f.error)
                 ELSE IF c2.pc = "done" THEN c2
                 ELSE IF ch1 = 40
                 THEN IF c2.encMap.arg = "NULL"
                      THEN Fail([c2 EXCEPT !.flags = @ \cup {"ARG_LIST"}], n1,
                                "E_This_item_has_no_arguments")
                      ELSE [c2 EXCEPT
                               !.flags = @ \cup {"ARG_LIST"} \cup
                                   (IF c2.encMap.arg = "unitSystemMap" THEN {"UNIT_SYS"} ELSE {}),
                               !.item = U32(c2.encMap.value), !.arg = U32(0),
                               !.hasArg = FALSE, !.multiArg = isMultiArg(c2.encMap)]
                 ELSE IF missingArgument(c2.encMap) THEN Fail(c2, n1, "E_Missing_argument")
                 ELSE [c2 EXCEPT !.out = encodeUnsigned(@, U32(c2.encMap.value))]
        ELSE Fail(c, c.n, "E_Unexpected_item_name_character")

\* mutation of setUnitNibble: the nibble is not cleared before it is set
setUnitNibbleOr(a, unitValue, code) == Or32(a, Shl32(U32(code), 4 * unitValue))

\* arg with the nibble of the unit set to the exponent code
setUnitNibble(a, unitValue, code) ==
    Or32(AndNot32(a, Shl32(U32(15), 4 * unitValue)), Shl32(U32(code), 4 * unitValue))

\* mutation of mergeArgument: every name sets its bit
mergeArgumentSets(a, encItem) == Or32(a, U32(encItem.value))

\* the named argument encItem merged into arg: its bit cleared or set
mergeArgument(a, encItem) ==
    IF encItem.arg = "clearArg" THEN AndNot32(a, U32(encItem.value))
    ELSE Or32(a, U32(encItem.value))

\* mutation of BodyUnitDesc: the ')' that ends the unit description is read
\* again as the end of the argument list
BodyUnitDescReprocess(c) ==
    LET ch == source[c.n + 1]
    IN  IF "UNIT" \in c.flags
        THEN IF isAlpha(ch) THEN [c EXCEPT !.tArg.length = @ + 1]
             ELSE IF isWhitespace(ch) \/ ch = 41 \/ ch = 94
             THEN LET f  == findEncoding(Tok(c.tArg), Map(c.encMap.arg), "E_Invalid_unit_name")
                      c1 == [c EXCEPT !.flags = @ \ {"UNIT"}, !.encUnit = f.enc]
                  IN  IF f.enc = NullEnc THEN Fail(c1, c.n, f.error)
                      ELSE IF ch = 94
                      THEN [c1 EXCEPT !.flags = @ \cup {"UNIT_EXP"},
                                      !.tArg = [start |-> c.n + 1, length |-> 0]]
                      ELSE [c1 EXCEPT !.arg = setUnitNibble(@, f.enc.value, 1), !.cont = TRUE]
             ELSE Fail(c, c.n, "E_Unexpected_unit_name_character")
        ELSE IF "UNIT_EXP" \in c.flags
        THEN IF ch = 45
             THEN IF c.tArg.length > 0 THEN Fail(c, c.n, "E_Invalid_unit_exponent")
                  ELSE [c EXCEPT !.tArg.length = @ + 1]
             ELSE IF isDigit(ch) THEN [c EXCEPT !.tArg.length = @ + 1]
             ELSE LET f  == findEncoding(Tok(c.tArg), Map(c.encUnit.arg), "E_Invalid_unit_exponent")
                      c1 == [c EXCEPT !.flags = @ \ {"UNIT_EXP"}]
                  IN  IF f.enc = NullEnc THEN Fail(c1, c.n, f.error)
                      ELSE [c1 EXCEPT !.arg = setUnitNibble(@, c.encUnit.value, f.enc.value),
                                      !.flags = @ \cup {"UNIT_DESC"}, !.cont = TRUE]
        ELSE IF isAlpha(ch)
        THEN [c EXCEPT !.flags = @ \cup {"UNIT"}, !.tArg = [start |-> c.n, length |-> 1]]
        ELSE IF ch = 41
        THEN [c EXCEPT !.flags = @ \ {"ARG", "UNIT_SYS", "UNIT_DESC"}, !.cont = TRUE]
        ELSE IF ~isWhitespace(ch) THEN Fail(c, c.n, "E_Unexpected_unit_name_character")
        ELSE c

\* _HID_WITHIN(ARG) && _HID_WITHIN(UNIT_DESC)
BodyUnitDesc(c) ==
    LET ch == source[c.n + 1]
    IN  IF "UNIT" \in c.flags
        THEN IF isAlpha(ch) THEN [c EXCEPT !.tArg.length = @ + 1]
             ELSE IF isWhitespace(ch) \/ ch = 41 \/ ch = 94
             THEN LET f  == findEncoding(Tok(c.tArg), Map(c.encMap.arg), "E_Invalid_unit_name")
                      c1 == [c EXCEPT !.flags = @ \ {"UNIT"}, !.encUnit = f.enc]
                  IN  IF f.enc = NullEnc THEN Fail(c1, c.n, f.error)
                      ELSE IF ch = 94
                      THEN [c1 EXCEPT !.flags = @ \cup {"UNIT_EXP"},
                                      !.tArg = [start |-> c.n + 1, length |-> 0]]
                      ELSE [c1 EXCEPT !.arg = setUnitNibble(@, f.enc.value, 1), !.cont = TRUE]
             ELSE Fail(c, c.n, "E_Unexpected_unit_name_character")
        ELSE IF "UNIT_EXP" \in c.flags
        THEN IF ch = 45
             THEN IF c.tArg.length > 0 THEN Fail(c, c.n, "E_Invalid_unit_exponent")
                  ELSE [c EXCEPT !.tArg.length = @ + 1]
             ELSE IF isDigit(ch) THEN [c EXCEPT !.tArg.length = @ + 1]
             ELSE LET f  == findEncoding(Tok(c.tArg), Map(c.encUnit.arg), "E_Invalid_unit_exponent")
                      c1 == [c EXCEPT !.flags = @ \ {"UNIT_EXP"}]
                  IN  IF f.enc = NullEnc THEN Fail(c1, c.n, f.error)
                      ELSE [c1 EXCEPT !.arg = setUnitNibble(@, c.encUnit.value, f.enc.value),
                                      !.flags = @ \cup {"UNIT_DESC"}, !.cont = TRUE]
        ELSE IF isAlpha(ch)
        THEN [c EXCEPT !.flags = @ \cup {"UNIT"}, !.tArg = [start |-> c.n, length |-> 1]]
        ELSE IF ch = 41
        THEN [c EXCEPT !.flags = @ \ {"ARG", "UNIT_SYS", "UNIT_DESC"}]
        ELSE IF ~isWhitespace(ch) THEN Fail(c, c.n, "E_Unexpected_unit_name_character")
        ELSE c

\* a literal or name ends at whitespace, at ')' and, in a multi-argument list, at ','
endsArgument(c, ch) == isWhitespace(ch) \/ ch = 41 \/ (c.multiArg /\ ch = 44)

\* hasArg = ( ! multiArg ) || *ptr != ','
hasArgAfter(c, ch) == (~c.multiArg) \/ ch # 44

\* the usage table a named Usage argument is resolved in: none ("") or the
\* current usage page
usageTableMissing(c) == c.usagePage = NullEnc \/ c.usagePage.arg = "NULL"

\* mutation of missingUsagePageError: the two errors are swapped
missingUsagePageErrorSwapped(c) ==
    IF c.hasUsagePage THEN "E_Missing_UsagePage" ELSE "E_Missing_named_UsagePage"

\* the error for a named Usage argument without usage table
missingUsagePageError(c) ==
    IF c.hasUsagePage THEN "E_Missing_named_UsagePage" ELSE "E_Missing_UsagePage"

\* mutation of missingUsagePagePos: the error is reported where the name starts
missingUsagePagePosAtStart(c) == c.tArg.start

\* where the error for a named Usage argument without usage table is reported:
\* errorMsg.at(n, ...), n being at the character that ends the name
missingUsagePagePos(c) == c.n

\* mutation of setUsagePage: the first named usage page stays the current one
setUsagePageOnce(c, enc) ==
    IF c.encMap.arg = "usagePageMap" /\ c.usagePage = NullEnc
    THEN [c EXCEPT !.usagePage = enc] ELSE c

\* mutation of setUsagePage: a named argument of any item becomes the current
\* usage page
setUsagePageByAnyItem(c, enc) == [c EXCEPT !.usagePage = enc]

\* a named argument of UsagePage becomes the current usage page
setUsagePage(c, enc) ==
    IF c.encMap.arg = "usagePageMap" THEN [c EXCEPT !.usagePage = enc] ELSE c

\* _HID_WITHIN(ARG), outside a unit description
BodyArg(c) ==
    LET ch == source[c.n + 1]
    IN  IF "UNIT_DESC" \in c.flags THEN BodyUnitDesc(c)
        ELSE IF isArgChar(ch) THEN [c EXCEPT !.tArg.length = @ + 1]
        ELSE IF "UNIT_SYS" \in c.flags
        THEN IF c.hasArg THEN Fail(c, c.n, "E_Internal_error")
             ELSE IF isWhitespace(ch) \/ ch = 40
             THEN LET n1 == IF isWhitespace(ch) THEN skipWhitespace(c.n) ELSE c.n
                      f  == findEncoding(Tok(c.tArg), Map(c.encMap.arg), "E_Invalid_unit_system_name")
                      c1 == [c EXCEPT !.n = n1]
                  IN  IF f.enc = NullEnc THEN Fail(c1, n1, f.error)
                      ELSE [c1 EXCEPT !.flags = @ \cup {"UNIT_DESC"}, !.arg = U32(f.enc.value),
                                      !.encMap = f.enc, !.hasArg = TRUE]
             ELSE IF ch = 41 THEN [c EXCEPT !.flags = @ \ {"UNIT_SYS"}, !.cont = TRUE]
             ELSE Fail(c, c.n, "E_Unexpected_argument_name_character")
        ELSE IF endsArgument(c, ch)
        THEN LET c1 == [c EXCEPT !.flags = @ \ {"ARG"}]
                 c2 == IF c.encMap.arg = "usageArg" THEN [c1 EXCEPT !.encMap = c.usagePage] ELSE c1
                 f  == findEncoding(Tok(c.tArg), Map(c2.encMap.arg), "E_Invalid_argument_name")
                 c3 == setUsagePage(c2, f.enc)
             IN  IF c.encMap.arg = "usageArg" /\ usageTableMissing(c)
                 THEN Fail(c1, missingUsagePagePos(c), missingUsagePageError(c))
                 ELSE IF f.enc = NullEnc THEN Fail(c2, c.n, f.error)
                 ELSE [c3 EXCEPT
                          !.arg = mergeArgument(@, f.enc),
                          !.hasArg = hasArgAfter(c, ch),
                          !.cont = (ch = 41)]
        ELSE Fail(c, c.n, "E_Unexpected_argument_name_character")

\* the value of a hex digit
hexDigitValue(ch) == IF ch < 65 THEN ch - 48 ELSE IF ch < 97 THEN ch - 65 + 10 ELSE ch - 97 + 10

\* lit <<= 4 with the overflow test of the code: [overflow, lit]
hexShift(l) == [overflow |-> Lt32(Shl32(l, 4), l), lit |-> Shl32(l, 4)]

\* lit = lit * 10 + digit with the two overflow tests of the code: [overflow, lit]
decimalStep(l, d) ==
    IF Lt32(MulAdd32(l, 10, 0), l) THEN [overflow |-> TRUE, lit |-> MulAdd32(l, 10, 0)]
    ELSE [overflow |-> Lt32(MulAdd32(l, 10, d), l), lit |-> MulAdd32(l, 10, d)]

\* a positive literal does not fit the signed argument of the item
signedLiteralOverflow(enc, l) == enc.arg = "signedNumArg" /\ Lt32(<< 32767, 65535 >>, l)

\* a negative literal is below the least int32_t
negativeLiteralOverflow(l) == Lt32(IntMin32, l)

\* _HID_WITHIN(HEX_LIT)
BodyHexLit(c) ==
    LET ch == source[c.n + 1]
    IN  IF isHexDigit(ch)
        THEN IF hexShift(c.lit).overflow
             THEN Fail([c EXCEPT !.lit = hexShift(c.lit).lit], c.n, "E_Number_overflow")
             ELSE [c EXCEPT !.lit = Or32(hexShift(c.lit).lit, U32(hexDigitValue(ch)))]
        ELSE IF "ARG_LIST" \in c.flags
        THEN IF endsArgument(c, ch)
             THEN LET c1 == [c EXCEPT !.flags = @ \ {"HEX_LIT"}]
                  IN  IF signedLiteralOverflow(c.encMap, c.lit)
                      THEN Fail(c1, c.n, "E_Number_overflow")
                      ELSE [c1 EXCEPT !.arg = Or32(@, c.lit), !.hasArg = hasArgAfter(c, ch),
                                      !.cont = (ch = 41)]
             ELSE Fail(c, c.n, "E_Invalid_hex_value")
        ELSE IF isWhitespace(ch)
        THEN [c EXCEPT !.flags = @ \ {"HEX_LIT"}, !.out = encodeUnsigned(@, c.lit)]
        ELSE Fail(c, c.n, "E_Invalid_hex_value")

\* _HID_WITHIN(NUM_LIT)
BodyNumLit(c) ==
    LET ch == source[c.n + 1]
    IN  IF isDigit(ch)
        THEN IF decimalStep(c.lit, ch - 48).overflow
             THEN Fail([c EXCEPT !.lit = decimalStep(c.lit, ch - 48).lit], c.n, "E_Number_overflow")
             ELSE [c EXCEPT !.lit = decimalStep(c.lit, ch - 48).lit]
        ELSE IF "ARG_LIST" \in c.flags
        THEN IF endsArgument(c, ch)
             THEN LET c1 == [c EXCEPT !.flags = @ \ {"NUM_LIT"}]
                  IN  IF c.negLit
                      THEN IF negativeLiteralOverflow(c.lit)
                           THEN Fail(c1, c.n, "E_Number_overflow")
                           ELSE [c1 EXCEPT !.arg = Or32(@, Neg32(c.lit)), !.negLit = FALSE,
                                           !.ub = NegOverflows(c.lit),
                                           !.hasArg = hasArgAfter(c, ch), !.cont = (ch = 41)]
                      ELSE IF signedLiteralOverflow(c.encMap, c.lit)
                      THEN Fail(c1, c.n, "E_Number_overflow")
                      ELSE [c1 EXCEPT !.arg = Or32(@, c.lit), !.hasArg = hasArgAfter(c, ch),
                                      !.cont = (ch = 41)]
             ELSE Fail(c, c.n, "E_Invalid_numeric_value")
        ELSE IF isWhitespace(ch)
        THEN [c EXCEPT !.flags = @ \ {"NUM_LIT"}, !.out = encodeUnsigned(@, c.lit)]
        ELSE Fail(c, c.n, "E_Invalid_numeric_value")

\* UnitExponent: sArg > 7 || sArg < -8
unitExponentOutOfRange(a) == ~(Lt32(a, U32(8)) \/ Lt32(<< 65535, 65527 >>, a))

\* mutation of usageOutOfRange: the bound is 0x1FFFF
usageOutOfRangeAbove17Bits(a) == Lt32(U32(131071), a)

\* mutation of usageOutOfRange: a full buffer makes the value out of range, too
usageOutOfRangeOrSinkFull(a) ==
    Lt32(U32(65535), a) \/ (writer.kind = "BufferWriter" /\ writer.pos >= writer.size)

\* UsagePage, Usage, UsageMinimum, UsageMaximum: arg > 0xFFFF
usageOutOfRange(a) == Lt32(U32(65535), a)

\* the item prefix and payload written when an argument list closes
emitItem(c) ==
    [c EXCEPT !.out = encodeUnsigned(
                          encodeUnsigned(@, Or32(c.item, U32(encodedSizeValue(encodedSize(c.arg))))),
                          c.arg),
              !.item = Or32(@, U32(encodedSizeValue(encodedSize(c.arg))))]

\* if (hasArg) and *ptr == ')': the end of the argument list
closeArgList(c) ==
    LET c1 == [c EXCEPT !.flags = @ \ {"ARG_LIST", "UNIT_SYS"}]
        done(x) == [x EXCEPT !.multiArg = FALSE]
    IN  IF c.encMap.arg = "signedNumArg"
        THEN done([c1 EXCEPT
                      !.item = Or32(@, U32(encodedSizeValue(encodedSizeSigned(c.arg)))),
                      !.out = encodeSigned(
                                  encodeUnsigned(@, Or32(c.item,
                                      U32(encodedSizeValue(encodedSizeSigned(c.arg))))),
                                  c.arg),
                      !.ub = IsNeg32(c.arg) /\ NegOverflows(c.arg)])
        ELSE IF c.encMap.arg = "unitExpMap"
        THEN IF unitExponentOutOfRange(c.arg)
             THEN Fail(c1, c.n, "E_Argument_value_out_of_range")
             ELSE done([c1 EXCEPT !.out = encodeUnsigned(encodeUnsigned(@, Or32(c.item, U32(1))),
                                                        U32(c.arg[2] % 16))])
        ELSE IF c.encMap.arg = "delimMap"
        THEN IF c.arg = U32(0)
             THEN IF c.delimLevel <= 0 THEN Fail(c1, c.n, "E_Unexpected_DelimiterClose")
                  ELSE done(emitItem([c1 EXCEPT !.delimLevel = @ - 1]))
             ELSE IF c.arg = U32(1) THEN done(emitItem([c1 EXCEPT !.delimLevel = @ + 1]))
             ELSE Fail(c1, c.n, "E_Unexpected_Delimiter_value")
        ELSE IF c.encMap.arg = "usagePageMap" \/ c.encMap.arg = "usageArg"
        THEN IF usageOutOfRange(c.arg) THEN Fail(c1, c.n, "E_Argument_value_out_of_range")
             ELSE done(emitItem([c1 EXCEPT
                                    !.hasUsagePage = @ \/ c.encMap.arg = "usagePageMap"]))
        ELSE IF c.encMap.value = 116 THEN done(emitItem([c1 EXCEPT !.reportSizes = @ + 1]))
        ELSE IF c.encMap.value = 148 THEN done(emitItem([c1 EXCEPT !.reportCounts = @ + 1]))
        ELSE done(emitItem(c1))

\* a '-' may start an argument of these tables only
negativeAllowed(enc) == enc.arg = "signedNumArg" \/ enc.arg = "unitExpMap"

\* _HID_WITHIN(ARG_LIST)
BodyArgList(c) ==
    LET ch == source[c.n + 1]
    IN  IF c.hasArg
        THEN IF ch = 41 THEN closeArgList(c)
             ELSE IF c.multiArg /\ ch = 44 THEN [c EXCEPT !.hasArg = FALSE]
             ELSE IF ~isWhitespace(ch) THEN Fail(c, c.n, "E_Unexpected_token")
             ELSE c
        ELSE IF isItemChar(ch)
        THEN [c EXCEPT !.flags = @ \cup {"ARG"}, !.tArg = [start |-> c.n, length |-> 1]]
        ELSE IF ch = 48 /\ c.n + 1 < Len(source) /\ source[c.n + 2] = 120
        THEN LET c1 == [c EXCEPT !.flags = @ \cup {"HEX_LIT"}]
             IN  IF c.n + 2 >= Len(source) THEN Fail(c1, c.n + 2, "E_Unexpected_end_of_source")
                 ELSE IF ~isHexDigit(source[c.n + 3]) THEN Fail(c1, c.n + 2, "E_Invalid_hex_value")
                 ELSE [c1 EXCEPT !.lit = U32(0), !.n = @ + 1]
        ELSE IF ch = 45
        THEN IF ~negativeAllowed(c.encMap)
             THEN Fail(c, c.n, "E_Negative_numbers_are_not_allowed_in_this_context")
             ELSE [c EXCEPT !.flags = @ \cup {"NUM_LIT"}, !.lit = U32(0), !.negLit = TRUE]
        ELSE IF isDigit(ch)
        THEN [c EXCEPT !.flags = @ \cup {"NUM_LIT"}, !.lit = U32(0), !.cont = TRUE]
        ELSE IF ch = 123
        THEN [c EXCEPT !.flags = @ \cup {"PARAM"}, !.tArg = [start |-> c.n + 1, length |-> 0]]
        ELSE IF ch = 41 THEN Fail(c, c.n, "E_Missing_argument")
        ELSE IF ~isWhitespace(ch) THEN Fail(c, c.n, "E_Unexpected_argument_name_character")
        ELSE c

\* mutation of LoopBody: n++ is left out in a comment
LoopBodyStaysInComment(c) ==
    LET r == IF c.flags = {} THEN BodyStart(c)
             ELSE IF "COMMENT" \in c.flags THEN BodyComment(c)
             ELSE IF "PARAM" \in c.flags THEN BodyParam(c)
             ELSE IF "ITEM" \in c.flags THEN BodyItem(c)
             ELSE IF "ARG" \in c.flags THEN BodyArg(c)
             ELSE IF "HEX_LIT" \in c.flags THEN BodyHexLit(c)
             ELSE IF "NUM_LIT" \in c.flags THEN BodyNumLit(c)
             ELSE IF "ARG_LIST" \in c.flags THEN BodyArgList(c)
             ELSE c
    IN  IF r.pc = "loop" /\ ~r.cont /\ "COMMENT" \notin r.flags
        THEN [r EXCEPT !.n = @ + 1] ELSE r

\* one iteration of the for loop at source[n]: the branch for flags, then
\* n++ unless the branch returned or said continue
LoopBody(c) ==
    LET r == IF c.flags = {} THEN BodyStart(c)
             ELSE IF "COMMENT" \in c.flags THEN BodyComment(c)
             ELSE IF "PARAM" \in c.flags THEN BodyParam(c)
             ELSE IF "ITEM" \in c.flags THEN BodyItem(c)
             ELSE IF "ARG" \in c.flags THEN BodyArg(c)
             ELSE IF "HEX_LIT" \in c.flags THEN BodyHexLit(c)
             ELSE IF "NUM_LIT" \in c.flags THEN BodyNumLit(c)
             ELSE IF "ARG_LIST" \in c.flags THEN BodyArgList(c)
             ELSE c
    IN  IF r.pc = "loop" /\ ~r.cont THEN [r EXCEPT !.n = @ + 1] ELSE r

\* mutation of EndOfSource: a literal the source ends in is dropped
EndOfSourceDropsLiteral(c) ==
    LET x == [c EXCEPT !.flags = @ \ {"HEX_LIT", "NUM_LIT"}]
    IN  IF x.colLevel > 0 THEN Fail(x, c.n, "E_Missing_EndCollection")
        ELSE IF x.delimLevel > 0 THEN Fail(x, c.n, "E_Missing_DelimiterClose")
        ELSE IF x.flags # {} /\ x.flags # {"COMMENT"}
        THEN Fail(x, c.n, "E_Unexpected_end_of_source")
        ELSE [x EXCEPT !.error = Info, !.pc = "done", !.ret = TRUE]

\* mutation of EndOfSource: a successful compile leaves the diagnostic as it
\* found it
EndOfSourceKeepsDiagnostic(c) ==
    LET c1 == IF "HEX_LIT" \in c.flags \/ "NUM_LIT" \in c.flags
              THEN LET x == [c EXCEPT !.flags = @ \ {"HEX_LIT", "NUM_LIT"}]
                   IN  IF x.flags = {} THEN [x EXCEPT !.out = encodeUnsigned(@, c.lit)] ELSE x
              ELSE c
        f  == findEncoding(Tok(c1.tItem), itemMap, "E_Invalid_item_name")
        c2 == [c1 EXCEPT !.flags = @ \ {"ITEM"}, !.encMap = f.enc]
        c3 == itemBookkeeping(c2, FALSE)
        c4 == IF "ITEM" \notin c1.flags THEN c1
              ELSE IF f.enc = NullEnc THEN Fail(c2, c.n, f.error)
              ELSE IF c3.pc = "done" THEN c3
              ELSE IF missingArgument(c3.encMap) THEN Fail(c3, c.n, "E_Missing_argument")
              ELSE IF c3.flags = {} THEN [c3 EXCEPT !.out = encodeUnsigned(@, U32(c3.encMap.value))]
              ELSE c3
    IN  IF c4.pc = "done" THEN c4
        ELSE IF c4.colLevel > 0 THEN Fail(c4, c.n, "E_Missing_EndCollection")
        ELSE IF c4.delimLevel > 0 THEN Fail(c4, c.n, "E_Missing_DelimiterClose")
        ELSE IF c4.flags # {} /\ c4.flags # {"COMMENT"}
        THEN Fail(c4, c.n, "E_Unexpected_end_of_source")
        ELSE [c4 EXCEPT !.pc = "done", !.ret = TRUE]

\* the code after the loop: end of source
EndOfSource(c) ==
    LET c1 == IF "HEX_LIT" \in c.flags \/ "NUM_LIT" \in c.flags
              THEN LET x == [c EXCEPT !.flags = @ \ {"HEX_LIT", "NUM_LIT"}]
                   IN  IF x.flags = {} THEN [x EXCEPT !.out = encodeUnsigned(@, c.lit)] ELSE x
              ELSE c
        f  == findEncoding(Tok(c1.tItem), itemMap, "E_Invalid_item_name")
        c2 == [c1 EXCEPT !.flags = @ \ {"ITEM"}, !.encMap = f.enc]
        c3 == itemBookkeeping(c2, FALSE)
        c4 == IF "ITEM" \notin c1.flags THEN c1
              ELSE IF f.enc = NullEnc THEN Fail(c2, c.n, f.error)
              ELSE IF c3.pc = "done" THEN c3
              ELSE IF missingArgument(c3.encMap) THEN Fail(c3, c.n, "E_Missing_argument")
              ELSE IF c3.flags = {} THEN [c3 EXCEPT !.out = encodeUnsigned(@, U32(c3.encMap.value))]
              ELSE c3
    IN  IF c4.pc = "done" THEN c4
        ELSE IF c4.colLevel > 0 THEN Fail(c4, c.n, "E_Missing_EndCollection")
        ELSE IF c4.delimLevel > 0 THEN Fail(c4, c.n, "E_Missing_DelimiterClose")
        ELSE IF c4.flags # {} /\ c4.flags # {"COMMENT"}
        THEN Fail(c4, c.n, "E_Unexpected_end_of_source")
        ELSE [c4 EXCEPT !.error = Info, !.pc = "done", !.ret = TRUE]


(***************************************************************************)
(* The sources compile is run on.  A source is put together from chunks,   *)
(* an item with its argument or a top-level literal each, one to a line;   *)
(* prog records the chunks, so that a property can relate what the         *)
(* source says to what compile wrote.                                      *)
(***************************************************************************)
\* the text of the argument or literal of a chunk
ArgText(ch) ==
    CASE ch.form = "dec"   -> (IF ch.neg THEN << 45 >> ELSE << >>) \o ch.body
      [] ch.form = "hex"   -> << 48, 120 >> \o ch.body
      [] ch.form = "param" -> << 123 >> \o ch.body \o << 125 >>
      [] OTHER             -> ch.body

\* the text of a list of arguments, with the byte sep between them
RECURSIVE ListText(_, _)
ListText(args, sep) ==
    IF args = << >> THEN << >>
    ELSE IF Len(args) = 1 THEN ArgText(args[1])
    ELSE ArgText(args[1]) \o << sep >> \o ListText(Tail(args), sep)

\* the text of a chunk
Text(ch) ==
    IF ch.item = << >> THEN ArgText(ch)
    ELSE IF ch.form = "none" THEN ch.item
    ELSE IF ch.form = "list" THEN ch.item \o << 40 >> \o ListText(ch.body, 44) \o << 41 >>
    ELSE IF ch.form = "unit"
    THEN ch.item \o << 40 >> \o ch.sys \o << 40 >> \o ListText(ch.body, 32) \o << 41, 41 >>
    ELSE ch.item \o << 40 >> \o ArgText(ch) \o << 41 >>

\* usages, collections, delimiters and report fields
ItemChunks == <<
    [item |-> << 85, 115, 97, 103, 101 >>, form |-> "dec", neg |-> FALSE, body |-> << 49 >>],   \* Usage(1)
    [item |-> << 67, 111, 108, 108, 101, 99, 116, 105, 111, 110 >>, form |-> "dec", neg |-> FALSE, body |-> << 49 >>],   \* Collection(1)
    [item |-> << 69, 110, 100, 67, 111, 108, 108, 101, 99, 116, 105, 111, 110 >>, form |-> "none", neg |-> FALSE, body |-> << >>],   \* EndCollection
    [item |-> << 68, 101, 108, 105, 109, 105, 116, 101, 114 >>, form |-> "name", neg |-> FALSE, body |-> << 79, 112, 101, 110 >>],   \* Delimiter(Open)
    [item |-> << 68, 101, 108, 105, 109, 105, 116, 101, 114 >>, form |-> "name", neg |-> FALSE, body |-> << 67, 108, 111, 115, 101 >>],   \* Delimiter(Close)
    [item |-> << 68, 101, 108, 105, 109, 105, 116, 101, 114 >>, form |-> "dec", neg |-> FALSE, body |-> << 48 >>],   \* Delimiter(0)
    [item |-> << 82, 101, 112, 111, 114, 116, 83, 105, 122, 101 >>, form |-> "dec", neg |-> FALSE, body |-> << 49 >>],   \* ReportSize(1)
    [item |-> << 82, 101, 112, 111, 114, 116, 67, 111, 117, 110, 116 >>, form |-> "dec", neg |-> FALSE, body |-> << 49 >>],   \* ReportCount(1)
    [item |-> << 67, 111, 108, 108, 101, 99, 116, 105, 111, 110 >>, form |-> "name", neg |-> FALSE, body |-> << 66, 111, 103, 117, 115 >>],   \* Collection(Bogus)
    [item |-> << 85, 115, 97, 103, 101, 77, 105, 110, 105, 109, 117, 109 >>, form |-> "dec", neg |-> FALSE, body |-> << 49 >>]    \* UsageMinimum(1)
>>

\* usage pages and usages
UsageChunks == <<
    [item |-> << 85, 115, 97, 103, 101, 80, 97, 103, 101 >>, form |-> "name", neg |-> FALSE, body |-> << 71, 101, 110, 101, 114, 105, 99, 68, 101, 115, 107, 116, 111, 112 >>],   \* UsagePage(GenericDesktop)
    [item |-> << 85, 115, 97, 103, 101, 80, 97, 103, 101 >>, form |-> "name", neg |-> FALSE, body |-> << 66, 117, 116, 116, 111, 110 >>],   \* UsagePage(Button)
    [item |-> << 85, 115, 97, 103, 101, 80, 97, 103, 101 >>, form |-> "name", neg |-> FALSE, body |-> << 71, 97, 109, 105, 110, 103, 68, 101, 118, 105, 99, 101 >>],   \* UsagePage(GamingDevice)
    [item |-> << 85, 115, 97, 103, 101, 80, 97, 103, 101 >>, form |-> "dec", neg |-> FALSE, body |-> << 57 >>],   \* UsagePage(9)
    [item |-> << 85, 115, 97, 103, 101, 80, 97, 103, 101 >>, form |-> "param", neg |-> FALSE, body |-> << 98 >>],   \* UsagePage({b})
    [item |-> << 85, 115, 97, 103, 101 >>, form |-> "name", neg |-> FALSE, body |-> << 77, 111, 117, 115, 101 >>],   \* Usage(Mouse)
    [item |-> << 85, 115, 97, 103, 101 >>, form |-> "name", neg |-> FALSE, body |-> << 66, 117, 116, 116, 111, 110, 51 >>],   \* Usage(Button3)
    [item |-> << 85, 115, 97, 103, 101, 77, 105, 110, 105, 109, 117, 109 >>, form |-> "name", neg |-> FALSE, body |-> << 77, 111, 117, 115, 101 >>],   \* UsageMinimum(Mouse)
    [item |-> << 85, 115, 97, 103, 101, 77, 97, 120, 105, 109, 117, 109 >>, form |-> "name", neg |-> FALSE, body |-> << 66, 117, 116, 116, 111, 110, 51 >>],   \* UsageMaximum(Button3)
    [item |-> << 85, 115, 97, 103, 101 >>, form |-> "dec", neg |-> FALSE, body |-> << 51 >>],   \* Usage(3)
    [item |-> << 85, 115, 97, 103, 101 >>, form |-> "hex", neg |-> FALSE, body |-> << 52 >>],   \* Usage(0x4)
    [item |-> << 85, 115, 97, 103, 101 >>, form |-> "param", neg |-> FALSE, body |-> << 98 >>]    \* Usage({b})
>>

\* numbers at the boundaries of the encodings, at top level and as arguments
LiteralChunks == <<
    [item |-> << >>, form |-> "dec", neg |-> FALSE, body |-> << 48 >>],   \* 0
    [item |-> << >>, form |-> "dec", neg |-> FALSE, body |-> << 49 >>],   \* 1
    [item |-> << >>, form |-> "dec", neg |-> FALSE, body |-> << 49, 50, 55 >>],   \* 127
    [item |-> << >>, form |-> "dec", neg |-> FALSE, body |-> << 49, 50, 56 >>],   \* 128
    [item |-> << >>, form |-> "dec", neg |-> FALSE, body |-> << 50, 53, 53 >>],   \* 255
    [item |-> << >>, form |-> "dec", neg |-> FALSE, body |-> << 50, 53, 54 >>],   \* 256
    [item |-> << >>, form |-> "dec", neg |-> FALSE, body |-> << 51, 50, 55, 54, 55 >>],   \* 32767
    [item |-> << >>, form |-> "dec", neg |-> FALSE, body |-> << 51, 50, 55, 54, 56 >>],   \* 32768
    [item |-> << >>, form |-> "dec", neg |-> FALSE, body |-> << 54, 53, 53, 51, 53 >>],   \* 65535
    [item |-> << >>, form |-> "dec", neg |-> FALSE, body |-> << 54, 53, 53, 51, 54 >>],   \* 65536
    [item |-> << >>, form |-> "dec", neg |-> FALSE, body |-> << 50, 49, 52, 55, 52, 56, 51, 54, 52, 55 >>],   \* 2147483647
    [item |-> << >>, form |-> "dec", neg |-> FALSE, body |-> << 50, 49, 52, 55, 52, 56, 51, 54, 52, 56 >>],   \* 2147483648
    [item |-> << >>, form |-> "dec", neg |-> FALSE, body |-> << 52, 50, 57, 52, 57, 54, 55, 50, 57, 53 >>],   \* 4294967295
    [item |-> << >>, form |-> "dec", neg |-> FALSE, body |-> << 52, 50, 57, 52, 57, 54, 55, 50, 57, 54 >>],   \* 4294967296
    [item |-> << >>, form |-> "dec", neg |-> FALSE, body |-> << 53, 51, 54, 56, 55, 48, 57, 49, 50, 48 >>],   \* 5368709120
    [item |-> << >>, form |-> "dec", neg |-> FALSE, body |-> << 52, 50, 57, 52, 57, 54, 55, 50, 57, 53, 48 >>],   \* 42949672950
    [item |-> << >>, form |-> "dec", neg |-> FALSE, body |-> << 48, 48, 48, 48, 48, 48, 48, 48, 48, 48, 48, 48, 49 >>],   \* 0000000000001
    [item |-> << >>, form |-> "hex", neg |-> FALSE, body |-> << 48 >>],   \* 0x0
    [item |-> << >>, form |-> "hex", neg |-> FALSE, body |-> << 55, 70 >>],   \* 0x7F
    [item |-> << >>, form |-> "hex", neg |-> FALSE, body |-> << 56, 48 >>],   \* 0x80
    [item |-> << >>, form |-> "hex", neg |-> FALSE, body |-> << 102, 102 >>],   \* 0xff
    [item |-> << >>, form |-> "hex", neg |-> FALSE, body |-> << 49, 48, 48 >>],   \* 0x100
    [item |-> << >>, form |-> "hex", neg |-> FALSE, body |-> << 55, 70, 70, 70 >>],   \* 0x7FFF
    [item |-> << >>, form |-> "hex", neg |-> FALSE, body |-> << 56, 48, 48, 48 >>],   \* 0x8000
    [item |-> << >>, form |-> "hex", neg |-> FALSE, body |-> << 70, 70, 70, 70 >>],   \* 0xFFFF
    [item |-> << >>, form |-> "hex", neg |-> FALSE, body |-> << 49, 48, 48, 48, 48 >>],   \* 0x10000
    [item |-> << >>, form |-> "hex", neg |-> FALSE, body |-> << 55, 70, 70, 70, 70, 70, 70, 70 >>],   \* 0x7FFFFFFF
    [item |-> << >>, form |-> "hex", neg |-> FALSE, body |-> << 56, 48, 48, 48, 48, 48, 48, 48 >>],   \* 0x80000000
    [item |-> << >>, form |-> "hex", neg |-> FALSE, body |-> << 70, 70, 70, 70, 70, 70, 70, 70 >>],   \* 0xFFFFFFFF
    [item |-> << >>, form |-> "hex", neg |-> FALSE, body |-> << 49, 48, 48, 48, 48, 48, 48, 48, 48 >>],   \* 0x100000000
    [item |-> << >>, form |-> "hex", neg |-> FALSE, body |-> << 49, 50, 51, 52, 53, 54, 55, 56, 57 >>],   \* 0x123456789
    [item |-> << >>, form |-> "hex", neg |-> FALSE, body |-> << 48, 48, 48, 48, 48, 48, 48, 48, 97 >>],   \* 0x00000000a
    [item |-> << >>, form |-> "param", neg |-> FALSE, body |-> << 97 >>],   \* {a}
    [item |-> << >>, form |-> "param", neg |-> FALSE, body |-> << 98 >>],   \* {b}
    [item |-> << >>, form |-> "param", neg |-> FALSE, body |-> << 99 >>],   \* {c}
    [item |-> << >>, form |-> "param", neg |-> FALSE, body |-> << 100 >>],   \* {d}
    [item |-> << >>, form |-> "param", neg |-> FALSE, body |-> << 101 >>],   \* {e}
    [item |-> << >>, form |-> "param", neg |-> FALSE, body |-> << 102 >>],   \* {f}
    [item |-> << >>, form |-> "param", neg |-> FALSE, body |-> << 103 >>],   \* {g}
    [item |-> << >>, form |-> "param", neg |-> FALSE, body |-> << 104 >>],   \* {h}
    [item |-> << >>, form |-> "param", neg |-> FALSE, body |-> << 105 >>],   \* {i}
    [item |-> << 76, 111, 103, 105, 99, 97, 108, 77, 105, 110, 105, 109, 117, 109 >>, form |-> "dec", neg |-> FALSE, body |-> << 48 >>],   \* LogicalMinimum(0)
    [item |-> << 76, 111, 103, 105, 99, 97, 108, 77, 105, 110, 105, 109, 117, 109 >>, form |-> "dec", neg |-> FALSE, body |-> << 49 >>],   \* LogicalMinimum(1)
    [item |-> << 76, 111, 103, 105, 99, 97, 108, 77, 105, 110, 105, 109, 117, 109 >>, form |-> "dec", neg |-> FALSE, body |-> << 49, 50, 55 >>],   \* LogicalMinimum(127)
    [item |-> << 76, 111, 103, 105, 99, 97, 108, 77, 105, 110, 105, 109, 117, 109 >>, form |-> "dec", neg |-> FALSE, body |-> << 49, 50, 56 >>],   \* LogicalMinimum(128)
    [item |-> << 76, 111, 103, 105, 99, 97, 108, 77, 105, 110, 105, 109, 117, 109 >>, form |-> "dec", neg |-> FALSE, body |-> << 50, 53, 53 >>],   \* LogicalMinimum(255)
    [item |-> << 76, 111, 103, 105, 99, 97, 108, 77, 105, 110, 105, 109, 117, 109 >>, form |-> "dec", neg |-> FALSE, body |-> << 50, 53, 54 >>],   \* LogicalMinimum(256)
    [item |-> << 76, 111, 103, 105, 99, 97, 108, 77, 105, 110, 105, 109, 117, 109 >>, form |-> "dec", neg |-> FALSE, body |-> << 51, 50, 55, 54, 55 >>],   \* LogicalMinimum(32767)
    [item |-> << 76, 111, 103, 105, 99, 97, 108, 77, 105, 110, 105, 109, 117, 109 >>, form |-> "dec", neg |-> FALSE, body |-> << 51, 50, 55, 54, 56 >>],   \* LogicalMinimum(32768)
    [item |-> << 76, 111, 103, 105, 99, 97, 108, 77, 105, 110, 105, 109, 117, 109 >>, form |-> "dec", neg |-> FALSE, body |-> << 54, 53, 53, 51, 53 >>],   \* LogicalMinimum(65535)
    [item |-> << 76, 111, 103, 105, 99, 97, 108, 77, 105, 110, 105, 109, 117, 109 >>, form |-> "dec", neg |-> FALSE, body |-> << 54, 53, 53, 51, 54 >>],   \* LogicalMinimum(65536)
    [item |-> << 76, 111, 103, 105, 99, 97, 108, 77, 105, 110, 105, 109, 117, 109 >>, form |-> "dec", neg |-> FALSE, body |-> << 50, 49, 52, 55, 52, 56, 51, 54, 52, 55 >>],   \* LogicalMinimum(2147483647)
    [item |-> << 76, 111, 103, 105, 99, 97, 108, 77, 105, 110, 105, 109, 117, 109 >>, form |-> "dec", neg |-> FALSE, body |-> << 50, 49, 52, 55, 52, 56, 51, 54, 52, 56 >>],   \* LogicalMinimum(2147483648)
    [item |-> << 76, 111, 103, 105, 99, 97, 108, 77, 105, 110, 105, 109, 117, 109 >>, form |-> "dec", neg |-> FALSE, body |-> << 52, 50, 57, 52, 57, 54, 55, 50, 57, 53 >>],   \* LogicalMinimum(4294967295)
    [item |-> << 76, 111, 103, 105, 99, 97, 108, 77, 105, 110, 105, 109, 117, 109 >>, form |-> "dec", neg |-> FALSE, body |-> << 52, 50, 57, 52, 57, 54, 55, 50, 57, 54 >>],   \* LogicalMinimum(4294967296)
    [item |-> << 76, 111, 103, 105, 99, 97, 108, 77, 105, 110, 105, 109, 117, 109 >>, form |-> "dec", neg |-> FALSE, body |-> << 53, 51, 54, 56, 55, 48, 57, 49, 50, 48 >>],   \* LogicalMinimum(5368709120)
    [item |-> << 76, 111, 103, 105, 99, 97, 108, 77, 105, 110, 105, 109, 117, 109 >>, form |-> "dec", neg |-> FALSE, body |-> << 52, 50, 57, 52, 57, 54, 55, 50, 57, 53, 48 >>],   \* LogicalMinimum(42949672950)
    [item |-> << 76, 111, 103, 105, 99, 97, 108, 77, 105, 110, 105, 109, 117, 109 >>, form |-> "dec", neg |-> FALSE, body |-> << 48, 48, 48, 48, 48, 48, 48, 48, 48, 48, 48, 48, 49 >>],   \* LogicalMinimum(0000000000001)
    [item |-> << 76, 111, 103, 105, 99, 97, 108, 77, 105, 110, 105, 109, 117, 109 >>, form |-> "dec", neg |-> TRUE, body |-> << 49 >>],   \* LogicalMinimum(-1)
    [item |-> << 76, 111, 103, 105, 99, 97, 108, 77, 105, 110, 105, 109, 117, 109 >>, form |-> "dec", neg |-> TRUE, body |-> << 49, 50, 56 >>],   \* LogicalMinimum(-128)
    [item |-> << 76, 111, 103, 105, 99, 97, 108, 77, 105, 110, 105, 109, 117, 109 >>, form |-> "dec", neg |-> TRUE, body |-> << 49, 50, 57 >>],   \* LogicalMinimum(-129)
    [item |-> << 76, 111, 103, 105, 99, 97, 108, 77, 105, 110, 105, 109, 117, 109 >>, form |-> "dec", neg |-> TRUE, body |-> << 51, 50, 55, 54, 56 >>],   \* LogicalMinimum(-32768)
    [item |-> << 76, 111, 103, 105, 99, 97, 108, 77, 105, 110, 105, 109, 117, 109 >>, form |-> "dec", neg |-> TRUE, body |-> << 51, 50, 55, 54, 57 >>],   \* LogicalMinimum(-32769)
    [item |-> << 76, 111, 103, 105, 99, 97, 108, 77, 105, 110, 105, 109, 117, 109 >>, form |-> "dec", neg |-> TRUE, body |-> << 50, 49, 52, 55, 52, 56, 51, 54, 52, 56 >>],   \* LogicalMinimum(-2147483648)
    [item |-> << 76, 111, 103, 105, 99, 97, 108, 77, 105, 110, 105, 109, 117, 109 >>, form |-> "dec", neg |-> TRUE, body |-> << 50, 49, 52, 55, 52, 56, 51, 54, 52, 57 >>],   \* LogicalMinimum(-2147483649)
    [item |-> << 76, 111, 103, 105, 99, 97, 108, 77, 105, 110, 105, 109, 117, 109 >>, form |-> "hex", neg |-> FALSE, body |-> << 48 >>],   \* LogicalMinimum(0x0)
    [item |-> << 76, 111, 103, 105, 99, 97, 108, 77, 105, 110, 105, 109, 117, 109 >>, form |-> "hex", neg |-> FALSE, body |-> << 55, 70 >>],   \* LogicalMinimum(0x7F)
    [item |-> << 76, 111, 103, 105, 99, 97, 108, 77, 105, 110, 105, 109, 117, 109 >>, form |-> "hex", neg |-> FALSE, body |-> << 56, 48 >>],   \* LogicalMinimum(0x80)
    [item |-> << 76, 111, 103, 105, 99, 97, 108, 77, 105, 110, 105, 109, 117, 109 >>, form |-> "hex", neg |-> FALSE, body |-> << 102, 102 >>],   \* LogicalMinimum(0xff)
    [item |-> << 76, 111, 103, 105, 99, 97, 108, 77, 105, 110, 105, 109, 117, 109 >>, form |-> "hex", neg |-> FALSE, body |-> << 49, 48, 48 >>],   \* LogicalMinimum(0x100)
    [item |-> << 76, 111, 103, 105, 99, 97, 108, 77, 105, 110, 105, 109, 117, 109 >>, form |-> "hex", neg |-> FALSE, body |-> << 55, 70, 70, 70 >>],   \* LogicalMinimum(0x7FFF)
    [item |-> << 76, 111, 103, 105, 99, 97, 108, 77, 105, 110, 105, 109, 117, 109 >>, form |-> "hex", neg |-> FALSE, body |-> << 56, 48, 48, 48 >>],   \* LogicalMinimum(0x8000)
    [item |-> << 76, 111, 103, 105, 99, 97, 108, 77, 105, 110, 105, 109, 117, 109 >>, form |-> "hex", neg |-> FALSE, body |-> << 70, 70, 70, 70 >>],   \* LogicalMinimum(0xFFFF)
    [item |-> << 76, 111, 103, 105, 99, 97, 108, 77, 105, 110, 105, 109, 117, 109 >>, form |-> "hex", neg |-> FALSE, body |-> << 49, 48, 48, 48, 48 >>],   \* LogicalMinimum(0x10000)
    [item |-> << 76, 111, 103, 105, 99, 97, 108, 77, 105, 110, 105, 109, 117, 109 >>, form |-> "hex", neg |-> FALSE, body |-> << 55, 70, 70, 70, 70, 70, 70, 70 >>],   \* LogicalMinimum(0x7FFFFFFF)
    [item |-> << 76, 111, 103, 105, 99, 97, 108, 77, 105, 110, 105, 109, 117, 109 >>, form |-> "hex", neg |-> FALSE, body |-> << 56, 48, 48, 48, 48, 48, 48, 48 >>],   \* LogicalMinimum(0x80000000)
    [item |-> << 76, 111, 103, 105, 99, 97, 108, 77, 105, 110, 105, 109, 117, 109 >>, form |-> "hex", neg |-> FALSE, body |-> << 70, 70, 70, 70, 70, 70, 70, 70 >>],   \* LogicalMinimum(0xFFFFFFFF)
    [item |-> << 76, 111, 103, 105, 99, 97, 108, 77, 105, 110, 105, 109, 117, 109 >>, form |-> "hex", neg |-> FALSE, body |-> << 49, 48, 48, 48, 48, 48, 48, 48, 48 >>],   \* LogicalMinimum(0x100000000)
    [item |-> << 76, 111, 103, 105, 99, 97, 108, 77, 105, 110, 105, 109, 117, 109 >>, form |-> "hex", neg |-> FALSE, body |-> << 49, 50, 51, 52, 53, 54, 55, 56, 57 >>],   \* LogicalMinimum(0x123456789)
    [item |-> << 76, 111, 103, 105, 99, 97, 108, 77, 105, 110, 105, 109, 117, 109 >>, form |-> "hex", neg |-> FALSE, body |-> << 48, 48, 48, 48, 48, 48, 48, 48, 97 >>],   \* LogicalMinimum(0x00000000a)
    [item |-> << 76, 111, 103, 105, 99, 97, 108, 77, 105, 110, 105, 109, 117, 109 >>, form |-> "param", neg |-> FALSE, body |-> << 97 >>],   \* LogicalMinimum({a})
    [item |-> << 76, 111, 103, 105, 99, 97, 108, 77, 105, 110, 105, 109, 117, 109 >>, form |-> "param", neg |-> FALSE, body |-> << 98 >>],   \* LogicalMinimum({b})
    [item |-> << 76, 111, 103, 105, 99, 97, 108, 77, 105, 110, 105, 109, 117, 109 >>, form |-> "param", neg |-> FALSE, body |-> << 99 >>],   \* LogicalMinimum({c})
    [item |-> << 76, 111, 103, 105, 99, 97, 108, 77, 105, 110, 105, 109, 117, 109 >>, form |-> "param", neg |-> FALSE, body |-> << 100 >>],   \* LogicalMinimum({d})
    [item |-> << 76, 111, 103, 105, 99, 97, 108, 77, 105, 110, 105, 109, 117, 109 >>, form |-> "param", neg |-> FALSE, body |-> << 101 >>],   \* LogicalMinimum({e})
    [item |-> << 76, 111, 103, 105, 99, 97, 108, 77, 105, 110, 105, 109, 117, 109 >>, form |-> "param", neg |-> FALSE, body |-> << 102 >>],   \* LogicalMinimum({f})
    [item |-> << 76, 111, 103, 105, 99, 97, 108, 77, 105, 110, 105, 109, 117, 109 >>, form |-> "param", neg |-> FALSE, body |-> << 103 >>],   \* LogicalMinimum({g})
    [item |-> << 76, 111, 103, 105, 99, 97, 108, 77, 105, 110, 105, 109, 117, 109 >>, form |-> "param", neg |-> FALSE, body |-> << 104 >>],   \* LogicalMinimum({h})
    [item |-> << 76, 111, 103, 105, 99, 97, 108, 77, 105, 110, 105, 109, 117, 109 >>, form |-> "param", neg |-> FALSE, body |-> << 105 >>],   \* LogicalMinimum({i})
    [item |-> << 76, 111, 103, 105, 99, 97, 108, 77, 97, 120, 105, 109, 117, 109 >>, form |-> "dec", neg |-> FALSE, body |-> << 48 >>],   \* LogicalMaximum(0)
    [item |-> << 76, 111, 103, 105, 99, 97, 108, 77, 97, 120, 105, 109, 117, 109 >>, form |-> "dec", neg |-> FALSE, body |-> << 49 >>],   \* LogicalMaximum(1)
    [item |-> << 76, 111, 103, 105, 99, 97, 108, 77, 97, 120, 105, 109, 117, 109 >>, form |-> "dec", neg |-> FALSE, body |-> << 49, 50, 55 >>],   \* LogicalMaximum(127)
    [item |-> << 76, 111, 103, 105, 99, 97, 108, 77, 97, 120, 105, 109, 117, 109 >>, form |-> "dec", neg |-> FALSE, body |-> << 49, 50, 56 >>],   \* LogicalMaximum(128)
    [item |-> << 76, 111, 103, 105, 99, 97, 108, 77, 97, 120, 105, 109, 117, 109 >>, form |-> "dec", neg |-> FALSE, body |-> << 50, 53, 53 >>],   \* LogicalMaximum(255)
    [item |-> << 76, 111, 103, 105, 99, 97, 108, 77, 97, 120, 105, 109, 117, 109 >>, form |-> "dec", neg |-> FALSE, body |-> << 50, 53, 54 >>],   \* LogicalMaximum(256)
    [item |-> << 76, 111, 103, 105, 99, 97, 108, 77, 97, 120, 105, 109, 117, 109 >>, form |-> "dec", neg |-> FALSE, body |-> << 51, 50, 55, 54, 55 >>],   \* LogicalMaximum(32767)
    [item |-> << 76, 111, 103, 105, 99, 97, 108, 77, 97, 120, 105, 109, 117, 109 >>, form |-> "dec", neg |-> FALSE, body |-> << 51, 50, 55, 54, 56 >>],   \* LogicalMaximum(32768)
    [item |-> << 76, 111, 103, 105, 99, 97, 108, 77, 97, 120, 105, 109, 117, 109 >>, form |-> "dec", neg |-> FALSE, body |-> << 54, 53, 53, 51, 53 >>],   \* LogicalMaximum(65535)
    [item |-> << 76, 111, 103, 105, 99, 97, 108, 77, 97, 120, 105, 109, 117, 109 >>, form |-> "dec", neg |-> FALSE, body |-> << 54, 53, 53, 51, 54 >>],   \* LogicalMaximum(65536)
    [item |-> << 76, 111, 103, 105, 99, 97, 108, 77, 97, 120, 105, 109, 117, 109 >>, form |-> "dec", neg |-> FALSE, body |-> << 50, 49, 52, 55, 52, 56, 51, 54, 52, 55 >>],   \* LogicalMaximum(2147483647)
    [item |-> << 76, 111, 103, 105, 99, 97, 108, 77, 97, 120, 105, 109, 117, 109 >>, form |-> "dec", neg |-> FALSE, body |-> << 50, 49, 52, 55, 52, 56, 51, 54, 52, 56 >>],   \* LogicalMaximum(2147483648)
    [item |-> << 76, 111, 103, 105, 99, 97, 108, 77, 97, 120, 105, 109, 117, 109 >>, form |-> "dec", neg |-> FALSE, body |-> << 52, 50, 57, 52, 57, 54, 55, 50, 57, 53 >>],   \* LogicalMaximum(4294967295)
    [item |-> << 76, 111, 103, 105, 99, 97, 108, 77, 97, 120, 105, 109, 117, 109 >>, form |-> "dec", neg |-> FALSE, body |-> << 52, 50, 57, 52, 57, 54, 55, 50, 57, 54 >>],   \* LogicalMaximum(4294967296)
    [item |-> << 76, 111, 103, 105, 99, 97, 108, 77, 97, 120, 105, 109, 117, 109 >>, form |-> "dec", neg |-> FALSE, body |-> << 53, 51, 54, 56, 55, 48, 57, 49, 50, 48 >>],   \* LogicalMaximum(5368709120)
    [item |-> << 76, 111, 103, 105, 99, 97, 108, 77, 97, 120, 105, 109, 117, 109 >>, form |-> "dec", neg |-> FALSE, body |-> << 52, 50, 57, 52, 57, 54, 55, 50, 57, 53, 48 >>],   \* LogicalMaximum(42949672950)
    [item |-> << 76, 111, 103, 105, 99, 97, 108, 77, 97, 120, 105, 109, 117, 109 >>, form |-> "dec", neg |-> FALSE, body |-> << 48, 48, 48, 48, 48, 48, 48, 48, 48, 48, 48, 48, 49 >>],   \* LogicalMaximum(0000000000001)
    [item |-> << 76, 111, 103, 105, 99, 97, 108, 77, 97, 120, 105, 109, 117, 109 >>, form |-> "dec", neg |-> TRUE, body |-> << 49 >>],   \* LogicalMaximum(-1)
    [item |-> << 76, 111, 103, 105, 99, 97, 108, 77, 97, 120, 105, 109, 117, 109 >>, form |-> "dec", neg |-> TRUE, body |-> << 49, 50, 56 >>],   \* LogicalMaximum(-128)
    [item |-> << 76, 111, 103, 105, 99, 97, 108, 77, 97, 120, 105, 109, 117, 109 >>, form |-> "dec", neg |-> TRUE, body |-> << 49, 50, 57 >>],   \* LogicalMaximum(-129)
    [item |-> << 76, 111, 103, 105, 99, 97, 108, 77, 97, 120, 105, 109, 117, 109 >>, form |-> "dec", neg |-> TRUE, body |-> << 51, 50, 55, 54, 56 >>],   \* LogicalMaximum(-32768)
    [item |-> << 76, 111, 103, 105, 99, 97, 108, 77, 97, 120, 105, 109, 117, 109 >>, form |-> "dec", neg |-> TRUE, body |-> << 51, 50, 55, 54, 57 >>],   \* LogicalMaximum(-32769)
    [item |-> << 76, 111, 103, 105, 99, 97, 108, 77, 97, 120, 105, 109, 117, 109 >>, form |-> "dec", neg |-> TRUE, body |-> << 50, 49, 52, 55, 52, 56, 51, 54, 52, 56 >>],   \* LogicalMaximum(-2147483648)
    [item |-> << 76, 111, 103, 105, 99, 97, 108, 77, 97, 120, 105, 109, 117, 109 >>, form |-> "dec", neg |-> TRUE, body |-> << 50, 49, 52, 55, 52, 56, 51, 54, 52, 57 >>],   \* LogicalMaximum(-2147483649)
    [item |-> << 76, 111, 103, 105, 99, 97, 108, 77, 97, 120, 105, 109, 117, 109 >>, form |-> "hex", neg |-> FALSE, body |-> << 48 >>],   \* LogicalMaximum(0x0)
    [item |-> << 76, 111, 103, 105, 99, 97, 108, 77, 97, 120, 105, 109, 117, 109 >>, form |-> "hex", neg |-> FALSE, body |-> << 55, 70 >>],   \* LogicalMaximum(0x7F)
    [item |-> << 76, 111, 103, 105, 99, 97, 108, 77, 97, 120, 105, 109, 117, 109 >>, form |-> "hex", neg |-> FALSE, body |-> << 56, 48 >>],   \* LogicalMaximum(0x80)
    [item |-> << 76, 111, 103, 105, 99, 97, 108, 77, 97, 120, 105, 109, 117, 109 >>, form |-> "hex", neg |-> FALSE, body |-> << 102, 102 >>],   \* LogicalMaximum(0xff)
    [item |-> << 76, 111, 103, 105, 99, 97, 108, 77, 97, 120, 105, 109, 117, 109 >>, form |-> "hex", neg |-> FALSE, body |-> << 49, 48, 48 >>],   \* LogicalMaximum(0x100)
    [item |-> << 76, 111, 103, 105, 99, 97, 108, 77, 97, 120, 105, 109, 117, 109 >>, form |-> "hex", neg |-> FALSE, body |-> << 55, 70, 70, 70 >>],   \* LogicalMaximum(0x7FFF)
    [item |-> << 76, 111, 103, 105, 99, 97, 108, 77, 97, 120, 105, 109, 117, 109 >>, form |-> "hex", neg |-> FALSE, body |-> << 56, 48, 48, 48 >>],   \* LogicalMaximum(0x8000)
    [item |-> << 76, 111, 103, 105, 99, 97, 108, 77, 97, 120, 105, 109, 117, 109 >>, form |-> "hex", neg |-> FALSE, body |-> << 70, 70, 70, 70 >>],   \* LogicalMaximum(0xFFFF)
    [item |-> << 76, 111, 103, 105, 99, 97, 108, 77, 97, 120, 105, 109, 117, 109 >>, form |-> "hex", neg |-> FALSE, body |-> << 49, 48, 48, 48, 48 >>],   \* LogicalMaximum(0x10000)
    [item |-> << 76, 111, 103, 105, 99, 97, 108, 77, 97, 120, 105, 109, 117, 109 >>, form |-> "hex", neg |-> FALSE, body |-> << 55, 70, 70, 70, 70, 70, 70, 70 >>],   \* LogicalMaximum(0x7FFFFFFF)
    [item |-> << 76, 111, 103, 105, 99, 97, 108, 77, 97, 120, 105, 109, 117, 109 >>, form |-> "hex", neg |-> FALSE, body |-> << 56, 48, 48, 48, 48, 48, 48, 48 >>],   \* LogicalMaximum(0x80000000)
    [item |-> << 76, 111, 103, 105, 99, 97, 108, 77, 97, 120, 105, 109, 117, 109 >>, form |-> "hex", neg |-> FALSE, body |-> << 70, 70, 70, 70, 70, 70, 70, 70 >>],   \* LogicalMaximum(0xFFFFFFFF)
    [item |-> << 76, 111, 103, 105, 99, 97, 108, 77, 97, 120, 105, 109, 117, 109 >>, form |-> "hex", neg |-> FALSE, body |-> << 49, 48, 48, 48, 48, 48, 48, 48, 48 >>],   \* LogicalMaximum(0x100000000)
    [item |-> << 76, 111, 103, 105, 99, 97, 108, 77, 97, 120, 105, 109, 117, 109 >>, form |-> "hex", neg |-> FALSE, body |-> << 49, 50, 51, 52, 53, 54, 55, 56, 57 >>],   \* LogicalMaximum(0x123456789)
    [item |-> << 76, 111, 103, 105, 99, 97, 108, 77, 97, 120, 105, 109, 117, 109 >>, form |-> "hex", neg |-> FALSE, body |-> << 48, 48, 48, 48, 48, 48, 48, 48, 97 >>],   \* LogicalMaximum(0x00000000a)
    [item |-> << 76, 111, 103, 105, 99, 97, 108, 77, 97, 120, 105, 109, 117, 109 >>, form |-> "param", neg |-> FALSE, body |-> << 97 >>],   \* LogicalMaximum({a})
    [item |-> << 76, 111, 103, 105, 99, 97, 108, 77, 97, 120, 105, 109, 117, 109 >>, form |-> "param", neg |-> FALSE, body |-> << 98 >>],   \* LogicalMaximum({b})
    [item |-> << 76, 111, 103, 105, 99, 97, 108, 77, 97, 120, 105, 109, 117, 109 >>, form |-> "param", neg |-> FALSE, body |-> << 99 >>],   \* LogicalMaximum({c})
    [item |-> << 76, 111, 103, 105, 99, 97, 108, 77, 97, 120, 105, 109, 117, 109 >>, form |-> "param", neg |-> FALSE, body |-> << 100 >>],   \* LogicalMaximum({d})
    [item |-> << 76, 111, 103, 105, 99, 97, 108, 77, 97, 120, 105, 109, 117, 109 >>, form |-> "param", neg |-> FALSE, body |-> << 101 >>],   \* LogicalMaximum({e})
    [item |-> << 76, 111, 103, 105, 99, 97, 108, 77, 97, 120, 105, 109, 117, 109 >>, form |-> "param", neg |-> FALSE, body |-> << 102 >>],   \* LogicalMaximum({f})
    [item |-> << 76, 111, 103, 105, 99, 97, 108, 77, 97, 120, 105, 109, 117, 109 >>, form |-> "param", neg |-> FALSE, body |-> << 103 >>],   \* LogicalMaximum({g})
    [item |-> << 76, 111, 103, 105, 99, 97, 108, 77, 97, 120, 105, 109, 117, 109 >>, form |-> "param", neg |-> FALSE, body |-> << 104 >>],   \* LogicalMaximum({h})
    [item |-> << 76, 111, 103, 105, 99, 97, 108, 77, 97, 120, 105, 109, 117, 109 >>, form |-> "param", neg |-> FALSE, body |-> << 105 >>],   \* LogicalMaximum({i})
    [item |-> << 80, 104, 121, 115, 105, 99, 97, 108, 77, 105, 110, 105, 109, 117, 109 >>, form |-> "dec", neg |-> FALSE, body |-> << 48 >>],   \* PhysicalMinimum(0)
    [item |-> << 80, 104, 121, 115, 105, 99, 97, 108, 77, 105, 110, 105, 109, 117, 109 >>, form |-> "dec", neg |-> FALSE, body |-> << 49 >>],   \* PhysicalMinimum(1)
    [item |-> << 80, 104, 121, 115, 105, 99, 97, 108, 77, 105, 110, 105, 109, 117, 109 >>, form |-> "dec", neg |-> FALSE, body |-> << 49, 50, 55 >>],   \* PhysicalMinimum(127)
    [item |-> << 80, 104, 121, 115, 105, 99, 97, 108, 77, 105, 110, 105, 109, 117, 109 >>, form |-> "dec", neg |-> FALSE, body |-> << 49, 50, 56 >>],   \* PhysicalMinimum(128)
    [item |-> << 80, 104, 121, 115, 105, 99, 97, 108, 77, 105, 110, 105, 109, 117, 109 >>, form |-> "dec", neg |-> FALSE, body |-> << 50, 53, 53 >>],   \* PhysicalMinimum(255)
    [item |-> << 80, 104, 121, 115, 105, 99, 97, 108, 77, 105, 110, 105, 109, 117, 109 >>, form |-> "dec", neg |-> FALSE, body |-> << 50, 53, 54 >>],   \* PhysicalMinimum(256)
    [item |-> << 80, 104, 121, 115, 105, 99, 97, 108, 77, 105, 110, 105, 109, 117, 109 >>, form |-> "dec", neg |-> FALSE, body |-> << 51, 50, 55, 54, 55 >>],   \* PhysicalMinimum(32767)
    [item |-> << 80, 104, 121, 115, 105, 99, 97, 108, 77, 105, 110, 105, 109, 117, 109 >>, form |-> "dec", neg |-> FALSE, body |-> << 51, 50, 55, 54, 56 >>],   \* PhysicalMinimum(32768)
    [item |-> << 80, 104, 121, 115, 105, 99, 97, 108, 77, 105, 110, 105, 109, 117, 109 >>, form |-> "dec", neg |-> FALSE, body |-> << 54, 53, 53, 51, 53 >>],   \* PhysicalMinimum(65535)
    [item |-> << 80, 104, 121, 115, 105, 99, 97, 108, 77, 105, 110, 105, 109, 117, 109 >>, form |-> "dec", neg |-> FALSE, body |-> << 54, 53, 53, 51, 54 >>],   \* PhysicalMinimum(65536)
    [item |-> << 80, 104, 121, 115, 105, 99, 97, 108, 77, 105, 110, 105, 109, 117, 109 >>, form |-> "dec", neg |-> FALSE, body |-> << 50, 49, 52, 55, 52, 56, 51, 54, 52, 55 >>],   \* PhysicalMinimum(2147483647)
    [item |-> << 80, 104, 121, 115, 105, 99, 97, 108, 77, 105, 110, 105, 109, 117, 109 >>, form |-> "dec", neg |-> FALSE, body |-> << 50, 49, 52, 55, 52, 56, 51, 54, 52, 56 >>],   \* PhysicalMinimum(2147483648)
    [item |-> << 80, 104, 121, 115, 105, 99, 97, 108, 77, 105, 110, 105, 109, 117, 109 >>, form |-> "dec", neg |-> FALSE, body |-> << 52, 50, 57, 52, 57, 54, 55, 50, 57, 53 >>],   \* PhysicalMinimum(4294967295)
    [item |-> << 80, 104, 121, 115, 105, 99, 97, 108, 77, 105, 110, 105, 109, 117, 109 >>, form |-> "dec", neg |-> FALSE, body |-> << 52, 50, 57, 52, 57, 54, 55, 50, 57, 54 >>],   \* PhysicalMinimum(4294967296)
    [item |-> << 80, 104, 121, 115, 105, 99, 97, 108, 77, 105, 110, 105, 109, 117, 109 >>, form |-> "dec", neg |-> FALSE, body |-> << 53, 51, 54, 56, 55, 48, 57, 49, 50, 48 >>],   \* PhysicalMinimum(5368709120)
    [item |-> << 80, 104, 121, 115, 105, 99, 97, 108, 77, 105, 110, 105, 109, 117, 109 >>, form |-> "dec", neg |-> FALSE, body |-> << 52, 50, 57, 52, 57, 54, 55, 50, 57, 53, 48 >>],   \* PhysicalMinimum(42949672950)
    [item |-> << 80, 104, 121, 115, 105, 99, 97, 108, 77, 105, 110, 105, 109, 117, 109 >>, form |-> "dec", neg |-> FALSE, body |-> << 48, 48, 48, 48, 48, 48, 48, 48, 48, 48, 48, 48, 49 >>],   \* PhysicalMinimum(0000000000001)
    [item |-> << 80, 104, 121, 115, 105, 99, 97, 108, 77, 105, 110, 105, 109, 117, 109 >>, form |-> "dec", neg |-> TRUE, body |-> << 49 >>],   \* PhysicalMinimum(-1)
    [item |-> << 80, 104, 121, 115, 105, 99, 97, 108, 77, 105, 110, 105, 109, 117, 109 >>, form |-> "dec", neg |-> TRUE, body |-> << 49, 50, 56 >>],   \* PhysicalMinimum(-128)
    [item |-> << 80, 104, 121, 115, 105, 99, 97, 108, 77, 105, 110, 105, 109, 117, 109 >>, form |-> "dec", neg |-> TRUE, body |-> << 49, 50, 57 >>],   \* PhysicalMinimum(-129)
    [item |-> << 80, 104, 121, 115, 105, 99, 97, 108, 77, 105, 110, 105, 109, 117, 109 >>, form |-> "dec", neg |-> TRUE, body |-> << 51, 50, 55, 54, 56 >>],   \* PhysicalMinimum(-32768)
    [item |-> << 80, 104, 121, 115, 105, 99, 97, 108, 77, 105, 110, 105, 109, 117, 109 >>, form |-> "dec", neg |-> TRUE, body |-> << 51, 50, 55, 54, 57 >>],   \* PhysicalMinimum(-32769)
    [item |-> << 80, 104, 121, 115, 105, 99, 97, 108, 77, 105, 110, 105, 109, 117, 109 >>, form |-> "dec", neg |-> TRUE, body |-> << 50, 49, 52, 55, 52, 56, 51, 54, 52, 56 >>],   \* PhysicalMinimum(-2147483648)
    [item |-> << 80, 104, 121, 115, 105, 99, 97, 108, 77, 105, 110, 105, 109, 117, 109 >>, form |-> "dec", neg |-> TRUE, body |-> << 50, 49, 52, 55, 52, 56, 51, 54, 52, 57 >>],   \* PhysicalMinimum(-2147483649)
    [item |-> << 80, 104, 121, 115, 105, 99, 97, 108, 77, 105, 110, 105, 109, 117, 109 >>, form |-> "hex", neg |-> FALSE, body |-> << 48 >>],   \* PhysicalMinimum(0x0)
    [item |-> << 80, 104, 121, 115, 105, 99, 97, 108, 77, 105, 110, 105, 109, 117, 109 >>, form |-> "hex", neg |-> FALSE, body |-> << 55, 70 >>],   \* PhysicalMinimum(0x7F)
    [item |-> << 80, 104, 121, 115, 105, 99, 97, 108, 77, 105, 110, 105, 109, 117, 109 >>, form |-> "hex", neg |-> FALSE, body |-> << 56, 48 >>],   \* PhysicalMinimum(0x80)
    [item |-> << 80, 104, 121, 115, 105, 99, 97, 108, 77, 105, 110, 105, 109, 117, 109 >>, form |-> "hex", neg |-> FALSE, body |-> << 102, 102 >>],   \* PhysicalMinimum(0xff)
    [item |-> << 80, 104, 121, 115, 105, 99, 97, 108, 77, 105, 110, 105, 109, 117, 109 >>, form |-> "hex", neg |-> FALSE, body |-> << 49, 48, 48 >>],   \* PhysicalMinimum(0x100)
    [item |-> << 80, 104, 121, 115, 105, 99, 97, 108, 77, 105, 110, 105, 109, 117, 109 >>, form |-> "hex", neg |-> FALSE, body |-> << 55, 70, 70, 70 >>],   \* PhysicalMinimum(0x7FFF)
    [item |-> << 80, 104, 121, 115, 105, 99, 97, 108, 77, 105, 110, 105, 109, 117, 109 >>, form |-> "hex", neg |-> FALSE, body |-> << 56, 48, 48, 48 >>],   \* PhysicalMinimum(0x8000)
    [item |-> << 80, 104, 121, 115, 105, 99, 97, 108, 77, 105, 110, 105, 109, 117, 109 >>, form |-> "hex", neg |-> FALSE, body |-> << 70, 70, 70, 70 >>],   \* PhysicalMinimum(0xFFFF)
    [item |-> << 80, 104, 121, 115, 105, 99, 97, 108, 77, 105, 110, 105, 109, 117, 109 >>, form |-> "hex", neg |-> FALSE, body |-> << 49, 48, 48, 48, 48 >>],   \* PhysicalMinimum(0x10000)
    [item |-> << 80, 104, 121, 115, 105, 99, 97, 108, 77, 105, 110, 105, 109, 117, 109 >>, form |-> "hex", neg |-> FALSE, body |-> << 55, 70, 70, 70, 70, 70, 70, 70 >>],   \* PhysicalMinimum(0x7FFFFFFF)
    [item |-> << 80, 104, 121, 115, 105, 99, 97, 108, 77, 105, 110, 105, 109, 117, 109 >>, form |-> "hex", neg |-> FALSE, body |-> << 56, 48, 48, 48, 48, 48, 48, 48 >>],   \* PhysicalMinimum(0x80000000)
    [item |-> << 80, 104, 121, 115, 105, 99, 97, 108, 77, 105, 110, 105, 109, 117, 109 >>, form |-> "hex", neg |-> FALSE, body |-> << 70, 70, 70, 70, 70, 70, 70, 70 >>],   \* PhysicalMinimum(0xFFFFFFFF)
    [item |-> << 80, 104, 121, 115, 105, 99, 97, 108, 77, 105, 110, 105, 109, 117, 109 >>, form |-> "hex", neg |-> FALSE, body |-> << 49, 48, 48, 48, 48, 48, 48, 48, 48 >>],   \* PhysicalMinimum(0x100000000)
    [item |-> << 80, 104, 121, 115, 105, 99, 97, 108, 77, 105, 110, 105, 109, 117, 109 >>, form |-> "hex", neg |-> FALSE, body |-> << 49, 50, 51, 52, 53, 54, 55, 56, 57 >>],   \* PhysicalMinimum(0x123456789)
    [item |-> << 80, 104, 121, 115, 105, 99, 97, 108, 77, 105, 110, 105, 109, 117, 109 >>, form |-> "hex", neg |-> FALSE, body |-> << 48, 48, 48, 48, 48, 48, 48, 48, 97 >>],   \* PhysicalMinimum(0x00000000a)
    [item |-> << 80, 104, 121, 115, 105, 99, 97, 108, 77, 105, 110, 105, 109, 117, 109 >>, form |-> "param", neg |-> FALSE, body |-> << 97 >>],   \* PhysicalMinimum({a})
    [item |-> << 80, 104, 121, 115, 105, 99, 97, 108, 77, 105, 110, 105, 109, 117, 109 >>, form |-> "param", neg |-> FALSE, body |-> << 98 >>],   \* PhysicalMinimum({b})
    [item |-> << 80, 104, 121, 115, 105, 99, 97, 108, 77, 105, 110, 105, 109, 117, 109 >>, form |-> "param", neg |-> FALSE, body |-> << 99 >>],   \* PhysicalMinimum({c})
    [item |-> << 80, 104, 121, 115, 105, 99, 97, 108, 77, 105, 110, 105, 109, 117, 109 >>, form |-> "param", neg |-> FALSE, body |-> << 100 >>],   \* PhysicalMinimum({d})
    [item |-> << 80, 104, 121, 115, 105, 99, 97, 108, 77, 105, 110, 105, 109, 117, 109 >>, form |-> "param", neg |-> FALSE, body |-> << 101 >>],   \* PhysicalMinimum({e})
    [item |-> << 80, 104, 121, 115, 105, 99, 97, 108, 77, 105, 110, 105, 109, 117, 109 >>, form |-> "param", neg |-> FALSE, body |-> << 102 >>],   \* PhysicalMinimum({f})
    [item |-> << 80, 104, 121, 115, 105, 99, 97, 108, 77, 105, 110, 105, 109, 117, 109 >>, form |-> "param", neg |-> FALSE, body |-> << 103 >>],   \* PhysicalMinimum({g})
    [item |-> << 80, 104, 121, 115, 105, 99, 97, 108, 77, 105, 110, 105, 109, 117, 109 >>, form |-> "param", neg |-> FALSE, body |-> << 104 >>],   \* PhysicalMinimum({h})
    [item |-> << 80, 104, 121, 115, 105, 99, 97, 108, 77, 105, 110, 105, 109, 117, 109 >>, form |-> "param", neg |-> FALSE, body |-> << 105 >>],   \* PhysicalMinimum({i})
    [item |-> << 80, 104, 121, 115, 105, 99, 97, 108, 77, 97, 120, 105, 109, 117, 109 >>, form |-> "dec", neg |-> FALSE, body |-> << 48 >>],   \* PhysicalMaximum(0)
    [item |-> << 80, 104, 121, 115, 105, 99, 97, 108, 77, 97, 120, 105, 109, 117, 109 >>, form |-> "dec", neg |-> FALSE, body |-> << 49 >>],   \* PhysicalMaximum(1)
    [item |-> << 80, 104, 121, 115, 105, 99, 97, 108, 77, 97, 120, 105, 109, 117, 109 >>, form |-> "dec", neg |-> FALSE, body |-> << 49, 50, 55 >>],   \* PhysicalMaximum(127)
    [item |-> << 80, 104, 121, 115, 105, 99, 97, 108, 77, 97, 120, 105, 109, 117, 109 >>, form |-> "dec", neg |-> FALSE, body |-> << 49, 50, 56 >>],   \* PhysicalMaximum(128)
    [item |-> << 80, 104, 121, 115, 105, 99, 97, 108, 77, 97, 120, 105, 109, 117, 109 >>, form |-> "dec", neg |-> FALSE, body |-> << 50, 53, 53 >>],   \* PhysicalMaximum(255)
    [item |-> << 80, 104, 121, 115, 105, 99, 97, 108, 77, 97, 120, 105, 109, 117, 109 >>, form |-> "dec", neg |-> FALSE, body |-> << 50, 53, 54 >>],   \* PhysicalMaximum(256)
    [item |-> << 80, 104, 121, 115, 105, 99, 97, 108, 77, 97, 120, 105, 109, 117, 109 >>, form |-> "dec", neg |-> FALSE, body |-> << 51, 50, 55, 54, 55 >>],   \* PhysicalMaximum(32767)
    [item |-> << 80, 104, 121, 115, 105, 99, 97, 108, 77, 97, 120, 105, 109, 117, 109 >>, form |-> "dec", neg |-> FALSE, body |-> << 51, 50, 55, 54, 56 >>],   \* PhysicalMaximum(32768)
    [item |-> << 80, 104, 121, 115, 105, 99, 97, 108, 77, 97, 120, 105, 109, 117, 109 >>, form |-> "dec", neg |-> FALSE, body |-> << 54, 53, 53, 51, 53 >>],   \* PhysicalMaximum(65535)
    [item |-> << 80, 104, 121, 115, 105, 99, 97, 108, 77, 97, 120, 105, 109, 117, 109 >>, form |-> "dec", neg |-> FALSE, body |-> << 54, 53, 53, 51, 54 >>],   \* PhysicalMaximum(65536)
    [item |-> << 80, 104, 121, 115, 105, 99, 97, 108, 77, 97, 120, 105, 109, 117, 109 >>, form |-> "dec", neg |-> FALSE, body |-> << 50, 49, 52, 55, 52, 56, 51, 54, 52, 55 >>],   \* PhysicalMaximum(2147483647)
    [item |-> << 80, 104, 121, 115, 105, 99, 97, 108, 77, 97, 120, 105, 109, 117, 109 >>, form |-> "dec", neg |-> FALSE, body |-> << 50, 49, 52, 55, 52, 56, 51, 54, 52, 56 >>],   \* PhysicalMaximum(2147483648)
    [item |-> << 80, 104, 121, 115, 105, 99, 97, 108, 77, 97, 120, 105, 109, 117, 109 >>, form |-> "dec", neg |-> FALSE, body |-> << 52, 50, 57, 52, 57, 54, 55, 50, 57, 53 >>],   \* PhysicalMaximum(4294967295)
    [item |-> << 80, 104, 121, 115, 105, 99, 97, 108, 77, 97, 120, 105, 109, 117, 109 >>, form |-> "dec", neg |-> FALSE, body |-> << 52, 50, 57, 52, 57, 54, 55, 50, 57, 54 >>],   \* PhysicalMaximum(4294967296)
    [item |-> << 80, 104, 121, 115, 105, 99, 97, 108, 77, 97, 120, 105, 109, 117, 109 >>, form |-> "dec", neg |-> FALSE, body |-> << 53, 51, 54, 56, 55, 48, 57, 49, 50, 48 >>],   \* PhysicalMaximum(5368709120)
    [item |-> << 80, 104, 121, 115, 105, 99, 97, 108, 77, 97, 120, 105, 109, 117, 109 >>, form |-> "dec", neg |-> FALSE, body |-> << 52, 50, 57, 52, 57, 54, 55, 50, 57, 53, 48 >>],   \* PhysicalMaximum(42949672950)
    [item |-> << 80, 104, 121, 115, 105, 99, 97, 108, 77, 97, 120, 105, 109, 117, 109 >>, form |-> "dec", neg |-> FALSE, body |-> << 48, 48, 48, 48, 48, 48, 48, 48, 48, 48, 48, 48, 49 >>],   \* PhysicalMaximum(0000000000001)
    [item |-> << 80, 104, 121, 115, 105, 99, 97, 108, 77, 97, 120, 105, 109, 117, 109 >>, form |-> "dec", neg |-> TRUE, body |-> << 49 >>],   \* PhysicalMaximum(-1)
    [item |-> << 80, 104, 121, 115, 105, 99, 97, 108, 77, 97, 120, 105, 109, 117, 109 >>, form |-> "dec", neg |-> TRUE, body |-> << 49, 50, 56 >>],   \* PhysicalMaximum(-128)
    [item |-> << 80, 104, 121, 115, 105, 99, 97, 108, 77, 97, 120, 105, 109, 117, 109 >>, form |-> "dec", neg |-> TRUE, body |-> << 49, 50, 57 >>],   \* PhysicalMaximum(-129)
    [item |-> << 80, 104, 121, 115, 105, 99, 97, 108, 77, 97, 120, 105, 109, 117, 109 >>, form |-> "dec", neg |-> TRUE, body |-> << 51, 50, 55, 54, 56 >>],   \* PhysicalMaximum(-32768)
    [item |-> << 80, 104, 121, 115, 105, 99, 97, 108, 77, 97, 120, 105, 109, 117, 109 >>, form |-> "dec", neg |-> TRUE, body |-> << 51, 50, 55, 54, 57 >>],   \* PhysicalMaximum(-32769)
    [item |-> << 80, 104, 121, 115, 105, 99, 97, 108, 77, 97, 120, 105, 109, 117, 109 >>, form |-> "dec", neg |-> TRUE, body |-> << 50, 49, 52, 55, 52, 56, 51, 54, 52, 56 >>],   \* PhysicalMaximum(-2147483648)
    [item |-> << 80, 104, 121, 115, 105, 99, 97, 108, 77, 97, 120, 105, 109, 117, 109 >>, form |-> "dec", neg |-> TRUE, body |-> << 50, 49, 52, 55, 52, 56, 51, 54, 52, 57 >>],   \* PhysicalMaximum(-2147483649)
    [item |-> << 80, 104, 121, 115, 105, 99, 97, 108, 77, 97, 120, 105, 109, 117, 109 >>, form |-> "hex", neg |-> FALSE, body |-> << 48 >>],   \* PhysicalMaximum(0x0)
    [item |-> << 80, 104, 121, 115, 105, 99, 97, 108, 77, 97, 120, 105, 109, 117, 109 >>, form |-> "hex", neg |-> FALSE, body |-> << 55, 70 >>],   \* PhysicalMaximum(0x7F)
    [item |-> << 80, 104, 121, 115, 105, 99, 97, 108, 77, 97, 120, 105, 109, 117, 109 >>, form |-> "hex", neg |-> FALSE, body |-> << 56, 48 >>],   \* PhysicalMaximum(0x80)
    [item |-> << 80, 104, 121, 115, 105, 99, 97, 108, 77, 97, 120, 105, 109, 117, 109 >>, form |-> "hex", neg |-> FALSE, body |-> << 102, 102 >>],   \* PhysicalMaximum(0xff)
    [item |-> << 80, 104, 121, 115, 105, 99, 97, 108, 77, 97, 120, 105, 109, 117, 109 >>, form |-> "hex", neg |-> FALSE, body |-> << 49, 48, 48 >>],   \* PhysicalMaximum(0x100)
    [item |-> << 80, 104, 121, 115, 105, 99, 97, 108, 77, 97, 120, 105, 109, 117, 109 >>, form |-> "hex", neg |-> FALSE, body |-> << 55, 70, 70, 70 >>],   \* PhysicalMaximum(0x7FFF)
    [item |-> << 80, 104, 121, 115, 105, 99, 97, 108, 77, 97, 120, 105, 109, 117, 109 >>, form |-> "hex", neg |-> FALSE, body |-> << 56, 48, 48, 48 >>],   \* PhysicalMaximum(0x8000)
    [item |-> << 80, 104, 121, 115, 105, 99, 97, 108, 77, 97, 120, 105, 109, 117, 109 >>, form |-> "hex", neg |-> FALSE, body |-> << 70, 70, 70, 70 >>],   \* PhysicalMaximum(0xFFFF)
    [item |-> << 80, 104, 121, 115, 105, 99, 97, 108, 77, 97, 120, 105, 109, 117, 109 >>, form |-> "hex", neg |-> FALSE, body |-> << 49, 48, 48, 48, 48 >>],   \* PhysicalMaximum(0x10000)
    [item |-> << 80, 104, 121, 115, 105, 99, 97, 108, 77, 97, 120, 105, 109, 117, 109 >>, form |-> "hex", neg |-> FALSE, body |-> << 55, 70, 70, 70, 70, 70, 70, 70 >>],   \* PhysicalMaximum(0x7FFFFFFF)
    [item |-> << 80, 104, 121, 115, 105, 99, 97, 108, 77, 97, 120, 105, 109, 117, 109 >>, form |-> "hex", neg |-> FALSE, body |-> << 56, 48, 48, 48, 48, 48, 48, 48 >>],   \* PhysicalMaximum(0x80000000)
    [item |-> << 80, 104, 121, 115, 105, 99, 97, 108, 77, 97, 120, 105, 109, 117, 109 >>, form |-> "hex", neg |-> FALSE, body |-> << 70, 70, 70, 70, 70, 70, 70, 70 >>],   \* PhysicalMaximum(0xFFFFFFFF)
    [item |-> << 80, 104, 121, 115, 105, 99, 97, 108, 77, 97, 120, 105, 109, 117, 109 >>, form |-> "hex", neg |-> FALSE, body |-> << 49, 48, 48, 48, 48, 48, 48, 48, 48 >>],   \* PhysicalMaximum(0x100000000)
    [item |-> << 80, 104, 121, 115, 105, 99, 97, 108, 77, 97, 120, 105, 109, 117, 109 >>, form |-> "hex", neg |-> FALSE, body |-> << 49, 50, 51, 52, 53, 54, 55, 56, 57 >>],   \* PhysicalMaximum(0x123456789)
    [item |-> << 80, 104, 121, 115, 105, 99, 97, 108, 77, 97, 120, 105, 109, 117, 109 >>, form |-> "hex", neg |-> FALSE, body |-> << 48, 48, 48, 48, 48, 48, 48, 48, 97 >>],   \* PhysicalMaximum(0x00000000a)
    [item |-> << 80, 104, 121, 115, 105, 99, 97, 108, 77, 97, 120, 105, 109, 117, 109 >>, form |-> "param", neg |-> FALSE, body |-> << 97 >>],   \* PhysicalMaximum({a})
    [item |-> << 80, 104, 121, 115, 105, 99, 97, 108, 77, 97, 120, 105, 109, 117, 109 >>, form |-> "param", neg |-> FALSE, body |-> << 98 >>],   \* PhysicalMaximum({b})
    [item |-> << 80, 104, 121, 115, 105, 99, 97, 108, 77, 97, 120, 105, 109, 117, 109 >>, form |-> "param", neg |-> FALSE, body |-> << 99 >>],   \* PhysicalMaximum({c})
    [item |-> << 80, 104, 121, 115, 105, 99, 97, 108, 77, 97, 120, 105, 109, 117, 109 >>, form |-> "param", neg |-> FALSE, body |-> << 100 >>],   \* PhysicalMaximum({d})
    [item |-> << 80, 104, 121, 115, 105, 99, 97, 108, 77, 97, 120, 105, 109, 117, 109 >>, form |-> "param", neg |-> FALSE, body |-> << 101 >>],   \* PhysicalMaximum({e})
    [item |-> << 80, 104, 121, 115, 105, 99, 97, 108, 77, 97, 120, 105, 109, 117, 109 >>, form |-> "param", neg |-> FALSE, body |-> << 102 >>],   \* PhysicalMaximum({f})
    [item |-> << 80, 104, 121, 115, 105, 99, 97, 108, 77, 97, 120, 105, 109, 117, 109 >>, form |-> "param", neg |-> FALSE, body |-> << 103 >>],   \* PhysicalMaximum({g})
    [item |-> << 80, 104, 121, 115, 105, 99, 97, 108, 77, 97, 120, 105, 109, 117, 109 >>, form |-> "param", neg |-> FALSE, body |-> << 104 >>],   \* PhysicalMaximum({h})
    [item |-> << 80, 104, 121, 115, 105, 99, 97, 108, 77, 97, 120, 105, 109, 117, 109 >>, form |-> "param", neg |-> FALSE, body |-> << 105 >>],   \* PhysicalMaximum({i})
    [item |-> << 83, 116, 114, 105, 110, 103, 77, 97, 120, 105, 109, 117, 109 >>, form |-> "dec", neg |-> FALSE, body |-> << 48 >>],   \* StringMaximum(0)
    [item |-> << 83, 116, 114, 105, 110, 103, 77, 97, 120, 105, 109, 117, 109 >>, form |-> "dec", neg |-> FALSE, body |-> << 49 >>],   \* StringMaximum(1)
    [item |-> << 83, 116, 114, 105, 110, 103, 77, 97, 120, 105, 109, 117, 109 >>, form |-> "dec", neg |-> FALSE, body |-> << 49, 50, 55 >>],   \* StringMaximum(127)
    [item |-> << 83, 116, 114, 105, 110, 103, 77, 97, 120, 105, 109, 117, 109 >>, form |-> "dec", neg |-> FALSE, body |-> << 49, 50, 56 >>],   \* StringMaximum(128)
    [item |-> << 83, 116, 114, 105, 110, 103, 77, 97, 120, 105, 109, 117, 109 >>, form |-> "dec", neg |-> FALSE, body |-> << 50, 53, 53 >>],   \* StringMaximum(255)
    [item |-> << 83, 116, 114, 105, 110, 103, 77, 97, 120, 105, 109, 117, 109 >>, form |-> "dec", neg |-> FALSE, body |-> << 50, 53, 54 >>],   \* StringMaximum(256)
    [item |-> << 83, 116, 114, 105, 110, 103, 77, 97, 120, 105, 109, 117, 109 >>, form |-> "dec", neg |-> FALSE, body |-> << 51, 50, 55, 54, 55 >>],   \* StringMaximum(32767)
    [item |-> << 83, 116, 114, 105, 110, 103, 77, 97, 120, 105, 109, 117, 109 >>, form |-> "dec", neg |-> FALSE, body |-> << 51, 50, 55, 54, 56 >>],   \* StringMaximum(32768)
    [item |-> << 83, 116, 114, 105, 110, 103, 77, 97, 120, 105, 109, 117, 109 >>, form |-> "dec", neg |-> FALSE, body |-> << 54, 53, 53, 51, 53 >>],   \* StringMaximum(65535)
    [item |-> << 83, 116, 114, 105, 110, 103, 77, 97, 120, 105, 109, 117, 109 >>, form |-> "dec", neg |-> FALSE, body |-> << 54, 53, 53, 51, 54 >>],   \* StringMaximum(65536)
    [item |-> << 83, 116, 114, 105, 110, 103, 77, 97, 120, 105, 109, 117, 109 >>, form |-> "dec", neg |-> FALSE, body |-> << 50, 49, 52, 55, 52, 56, 51, 54, 52, 55 >>],   \* StringMaximum(2147483647)
    [item |-> << 83, 116, 114, 105, 110, 103, 77, 97, 120, 105, 109, 117, 109 >>, form |-> "dec", neg |-> FALSE, body |-> << 50, 49, 52, 55, 52, 56, 51, 54, 52, 56 >>],   \* StringMaximum(2147483648)
    [item |-> << 83, 116, 114, 105, 110, 103, 77, 97, 120, 105, 109, 117, 109 >>, form |-> "dec", neg |-> FALSE, body |-> << 52, 50, 57, 52, 57, 54, 55, 50, 57, 53 >>],   \* StringMaximum(4294967295)
    [item |-> << 83, 116, 114, 105, 110, 103, 77, 97, 120, 105, 109, 117, 109 >>, form |-> "dec", neg |-> FALSE, body |-> << 52, 50, 57, 52, 57, 54, 55, 50, 57, 54 >>],   \* StringMaximum(4294967296)
    [item |-> << 83, 116, 114, 105, 110, 103, 77, 97, 120, 105, 109, 117, 109 >>, form |-> "dec", neg |-> FALSE, body |-> << 53, 51, 54, 56, 55, 48, 57, 49, 50, 48 >>],   \* StringMaximum(5368709120)
    [item |-> << 83, 116, 114, 105, 110, 103, 77, 97, 120, 105, 109, 117, 109 >>, form |-> "dec", neg |-> FALSE, body |-> << 52, 50, 57, 52, 57, 54, 55, 50, 57, 53, 48 >>],   \* StringMaximum(42949672950)
    [item |-> << 83, 116, 114, 105, 110, 103, 77, 97, 120, 105, 109, 117, 109 >>, form |-> "dec", neg |-> FALSE, body |-> << 48, 48, 48, 48, 48, 48, 48, 48, 48, 48, 48, 48, 49 >>],   \* StringMaximum(0000000000001)
    [item |-> << 83, 116, 114, 105, 110, 103, 77, 97, 120, 105, 109, 117, 109 >>, form |-> "dec", neg |-> TRUE, body |-> << 49 >>],   \* StringMaximum(-1)
    [item |-> << 83, 116, 114, 105, 110, 103, 77, 97, 120, 105, 109, 117, 109 >>, form |-> "dec", neg |-> TRUE, body |-> << 49, 50, 56 >>],   \* StringMaximum(-128)
    [item |-> << 83, 116, 114, 105, 110, 103, 77, 97, 120, 105, 109, 117, 109 >>, form |-> "dec", neg |-> TRUE, body |-> << 49, 50, 57 >>],   \* StringMaximum(-129)
    [item |-> << 83, 116, 114, 105, 110, 103, 77, 97, 120, 105, 109, 117, 109 >>, form |-> "dec", neg |-> TRUE, body |-> << 51, 50, 55, 54, 56 >>],   \* StringMaximum(-32768)
    [item |-> << 83, 116, 114, 105, 110, 103, 77, 97, 120, 105, 109, 117, 109 >>, form |-> "dec", neg |-> TRUE, body |-> << 51, 50, 55, 54, 57 >>],   \* StringMaximum(-32769)
    [item |-> << 83, 116, 114, 105, 110, 103, 77, 97, 120, 105, 109, 117, 109 >>, form |-> "dec", neg |-> TRUE, body |-> << 50, 49, 52, 55, 52, 56, 51, 54, 52, 56 >>],   \* StringMaximum(-2147483648)
    [item |-> << 83, 116, 114, 105, 110, 103, 77, 97, 120, 105, 109, 117, 109 >>, form |-> "dec", neg |-> TRUE, body |-> << 50, 49, 52, 55, 52, 56, 51, 54, 52, 57 >>],   \* StringMaximum(-2147483649)
    [item |-> << 83, 116, 114, 105, 110, 103, 77, 97, 120, 105, 109, 117, 109 >>, form |-> "hex", neg |-> FALSE, body |-> << 48 >>],   \* StringMaximum(0x0)
    [item |-> << 83, 116, 114, 105, 110, 103, 77, 97, 120, 105, 109, 117, 109 >>, form |-> "hex", neg |-> FALSE, body |-> << 55, 70 >>],   \* StringMaximum(0x7F)
    [item |-> << 83, 116, 114, 105, 110, 103, 77, 97, 120, 105, 109, 117, 109 >>, form |-> "hex", neg |-> FALSE, body |-> << 56, 48 >>],   \* StringMaximum(0x80)
    [item |-> << 83, 116, 114, 105, 110, 103, 77, 97, 120, 105, 109, 117, 109 >>, form |-> "hex", neg |-> FALSE, body |-> << 102, 102 >>],   \* StringMaximum(0xff)
    [item |-> << 83, 116, 114, 105, 110, 103, 77, 97, 120, 105, 109, 117, 109 >>, form |-> "hex", neg |-> FALSE, body |-> << 49, 48, 48 >>],   \* StringMaximum(0x100)
    [item |-> << 83, 116, 114, 105, 110, 103, 77, 97, 120, 105, 109, 117, 109 >>, form |-> "hex", neg |-> FALSE, body |-> << 55, 70, 70, 70 >>],   \* StringMaximum(0x7FFF)
    [item |-> << 83, 116, 114, 105, 110, 103, 77, 97, 120, 105, 109, 117, 109 >>, form |-> "hex", neg |-> FALSE, body |-> << 56, 48, 48, 48 >>],   \* StringMaximum(0x8000)
    [item |-> << 83, 116, 114, 105, 110, 103, 77, 97, 120, 105, 109, 117, 109 >>, form |-> "hex", neg |-> FALSE, body |-> << 70, 70, 70, 70 >>],   \* StringMaximum(0xFFFF)
    [item |-> << 83, 116, 114, 105, 110, 103, 77, 97, 120, 105, 109, 117, 109 >>, form |-> "hex", neg |-> FALSE, body |-> << 49, 48, 48, 48, 48 >>],   \* StringMaximum(0x10000)
    [item |-> << 83, 116, 114, 105, 110, 103, 77, 97, 120, 105, 109, 117, 109 >>, form |-> "hex", neg |-> FALSE, body |-> << 55, 70, 70, 70, 70, 70, 70, 70 >>],   \* StringMaximum(0x7FFFFFFF)
    [item |-> << 83, 116, 114, 105, 110, 103, 77, 97, 120, 105, 109, 117, 109 >>, form |-> "hex", neg |-> FALSE, body |-> << 56, 48, 48, 48, 48, 48, 48, 48 >>],   \* StringMaximum(0x80000000)
    [item |-> << 83, 116, 114, 105, 110, 103, 77, 97, 120, 105, 109, 117, 109 >>, form |-> "hex", neg |-> FALSE, body |-> << 70, 70, 70, 70, 70, 70, 70, 70 >>],   \* StringMaximum(0xFFFFFFFF)
    [item |-> << 83, 116, 114, 105, 110, 103, 77, 97, 120, 105, 109, 117, 109 >>, form |-> "hex", neg |-> FALSE, body |-> << 49, 48, 48, 48, 48, 48, 48, 48, 48 >>],   \* StringMaximum(0x100000000)
    [item |-> << 83, 116, 114, 105, 110, 103, 77, 97, 120, 105, 109, 117, 109 >>, form |-> "hex", neg |-> FALSE, body |-> << 49, 50, 51, 52, 53, 54, 55, 56, 57 >>],   \* StringMaximum(0x123456789)
    [item |-> << 83, 116, 114, 105, 110, 103, 77, 97, 120, 105, 109, 117, 109 >>, form |-> "hex", neg |-> FALSE, body |-> << 48, 48, 48, 48, 48, 48, 48, 48, 97 >>],   \* StringMaximum(0x00000000a)
    [item |-> << 83, 116, 114, 105, 110, 103, 77, 97, 120, 105, 109, 117, 109 >>, form |-> "param", neg |-> FALSE, body |-> << 97 >>],   \* StringMaximum({a})
    [item |-> << 83, 116, 114, 105, 110, 103, 77, 97, 120, 105, 109, 117, 109 >>, form |-> "param", neg |-> FALSE, body |-> << 98 >>],   \* StringMaximum({b})
    [item |-> << 83, 116, 114, 105, 110, 103, 77, 97, 120, 105, 109, 117, 109 >>, form |-> "param", neg |-> FALSE, body |-> << 99 >>],   \* StringMaximum({c})
    [item |-> << 83, 116, 114, 105, 110, 103, 77, 97, 120, 105, 109, 117, 109 >>, form |-> "param", neg |-> FALSE, body |-> << 100 >>],   \* StringMaximum({d})
    [item |-> << 83, 116, 114, 105, 110, 103, 77, 97, 120, 105, 109, 117, 109 >>, form |-> "param", neg |-> FALSE, body |-> << 101 >>],   \* StringMaximum({e})
    [item |-> << 83, 116, 114, 105, 110, 103, 77, 97, 120, 105, 109, 117, 109 >>, form |-> "param", neg |-> FALSE, body |-> << 102 >>],   \* StringMaximum({f})
    [item |-> << 83, 116, 114, 105, 110, 103, 77, 97, 120, 105, 109, 117, 109 >>, form |-> "param", neg |-> FALSE, body |-> << 103 >>],   \* StringMaximum({g})
    [item |-> << 83, 116, 114, 105, 110, 103, 77, 97, 120, 105, 109, 117, 109 >>, form |-> "param", neg |-> FALSE, body |-> << 104 >>],   \* StringMaximum({h})
    [item |-> << 83, 116, 114, 105, 110, 103, 77, 97, 120, 105, 109, 117, 109 >>, form |-> "param", neg |-> FALSE, body |-> << 105 >>],   \* StringMaximum({i})
    [item |-> << 82, 101, 112, 111, 114, 116, 73, 100 >>, form |-> "dec", neg |-> FALSE, body |-> << 48 >>],   \* ReportId(0)
    [item |-> << 82, 101, 112, 111, 114, 116, 73, 100 >>, form |-> "dec", neg |-> FALSE, body |-> << 49 >>],   \* ReportId(1)
    [item |-> << 82, 101, 112, 111, 114, 116, 73, 100 >>, form |-> "dec", neg |-> FALSE, body |-> << 49, 50, 55 >>],   \* ReportId(127)
    [item |-> << 82, 101, 112, 111, 114, 116, 73, 100 >>, form |-> "dec", neg |-> FALSE, body |-> << 49, 50, 56 >>],   \* ReportId(128)
    [item |-> << 82, 101, 112, 111, 114, 116, 73, 100 >>, form |-> "dec", neg |-> FALSE, body |-> << 50, 53, 53 >>],   \* ReportId(255)
    [item |-> << 82, 101, 112, 111, 114, 116, 73, 100 >>, form |-> "dec", neg |-> FALSE, body |-> << 50, 53, 54 >>],   \* ReportId(256)
    [item |-> << 82, 101, 112, 111, 114, 116, 73, 100 >>, form |-> "dec", neg |-> FALSE, body |-> << 51, 50, 55, 54, 55 >>],   \* ReportId(32767)
    [item |-> << 82, 101, 112, 111, 114, 116, 73, 100 >>, form |-> "dec", neg |-> FALSE, body |-> << 51, 50, 55, 54, 56 >>],   \* ReportId(32768)
    [item |-> << 82, 101, 112, 111, 114, 116, 73, 100 >>, form |-> "dec", neg |-> FALSE, body |-> << 54, 53, 53, 51, 53 >>],   \* ReportId(65535)
    [item |-> << 82, 101, 112, 111, 114, 116, 73, 100 >>, form |-> "dec", neg |-> FALSE, body |-> << 54, 53, 53, 51, 54 >>],   \* ReportId(65536)
    [item |-> << 82, 101, 112, 111, 114, 116, 73, 100 >>, form |-> "dec", neg |-> FALSE, body |-> << 50, 49, 52, 55, 52, 56, 51, 54, 52, 55 >>],   \* ReportId(2147483647)
    [item |-> << 82, 101, 112, 111, 114, 116, 73, 100 >>, form |-> "dec", neg |-> FALSE, body |-> << 50, 49, 52, 55, 52, 56, 51, 54, 52, 56 >>],   \* ReportId(2147483648)
    [item |-> << 82, 101, 112, 111, 114, 116, 73, 100 >>, form |-> "dec", neg |-> FALSE, body |-> << 52, 50, 57, 52, 57, 54, 55, 50, 57, 53 >>],   \* ReportId(4294967295)
    [item |-> << 82, 101, 112, 111, 114, 116, 73, 100 >>, form |-> "dec", neg |-> FALSE, body |-> << 52, 50, 57, 52, 57, 54, 55, 50, 57, 54 >>],   \* ReportId(4294967296)
    [item |-> << 82, 101, 112, 111, 114, 116, 73, 100 >>, form |-> "dec", neg |-> FALSE, body |-> << 53, 51, 54, 56, 55, 48, 57, 49, 50, 48 >>],   \* ReportId(5368709120)
    [item |-> << 82, 101, 112, 111, 114, 116, 73, 100 >>, form |-> "dec", neg |-> FALSE, body |-> << 52, 50, 57, 52, 57, 54, 55, 50, 57, 53, 48 >>],   \* ReportId(42949672950)
    [item |-> << 82, 101, 112, 111, 114, 116, 73, 100 >>, form |-> "dec", neg |-> FALSE, body |-> << 48, 48, 48, 48, 48, 48, 48, 48, 48, 48, 48, 48, 49 >>],   \* ReportId(0000000000001)
    [item |-> << 82, 101, 112, 111, 114, 116, 73, 100 >>, form |-> "dec", neg |-> TRUE, body |-> << 49 >>],   \* ReportId(-1)
    [item |-> << 82, 101, 112, 111, 114, 116, 73, 100 >>, form |-> "dec", neg |-> TRUE, body |-> << 49, 50, 56 >>],   \* ReportId(-128)
    [item |-> << 82, 101, 112, 111, 114, 116, 73, 100 >>, form |-> "dec", neg |-> TRUE, body |-> << 49, 50, 57 >>],   \* ReportId(-129)
    [item |-> << 82, 101, 112, 111, 114, 116, 73, 100 >>, form |-> "dec", neg |-> TRUE, body |-> << 51, 50, 55, 54, 56 >>],   \* ReportId(-32768)
    [item |-> << 82, 101, 112, 111, 114, 116, 73, 100 >>, form |-> "dec", neg |-> TRUE, body |-> << 51, 50, 55, 54, 57 >>],   \* ReportId(-32769)
    [item |-> << 82, 101, 112, 111, 114, 116, 73, 100 >>, form |-> "dec", neg |-> TRUE, body |-> << 50, 49, 52, 55, 52, 56, 51, 54, 52, 56 >>],   \* ReportId(-2147483648)
    [item |-> << 82, 101, 112, 111, 114, 116, 73, 100 >>, form |-> "dec", neg |-> TRUE, body |-> << 50, 49, 52, 55, 52, 56, 51, 54, 52, 57 >>],   \* ReportId(-2147483649)
    [item |-> << 82, 101, 112, 111, 114, 116, 73, 100 >>, form |-> "hex", neg |-> FALSE, body |-> << 48 >>],   \* ReportId(0x0)
    [item |-> << 82, 101, 112, 111, 114, 116, 73, 100 >>, form |-> "hex", neg |-> FALSE, body |-> << 55, 70 >>],   \* ReportId(0x7F)
    [item |-> << 82, 101, 112, 111, 114, 116, 73, 100 >>, form |-> "hex", neg |-> FALSE, body |-> << 56, 48 >>],   \* ReportId(0x80)
    [item |-> << 82, 101, 112, 111, 114, 116, 73, 100 >>, form |-> "hex", neg |-> FALSE, body |-> << 102, 102 >>],   \* ReportId(0xff)
    [item |-> << 82, 101, 112, 111, 114, 116, 73, 100 >>, form |-> "hex", neg |-> FALSE, body |-> << 49, 48, 48 >>],   \* ReportId(0x100)
    [item |-> << 82, 101, 112, 111, 114, 116, 73, 100 >>, form |-> "hex", neg |-> FALSE, body |-> << 55, 70, 70, 70 >>],   \* ReportId(0x7FFF)
    [item |-> << 82, 101, 112, 111, 114, 116, 73, 100 >>, form |-> "hex", neg |-> FALSE, body |-> << 56, 48, 48, 48 >>],   \* ReportId(0x8000)
    [item |-> << 82, 101, 112, 111, 114, 116, 73, 100 >>, form |-> "hex", neg |-> FALSE, body |-> << 70, 70, 70, 70 >>],   \* ReportId(0xFFFF)
    [item |-> << 82, 101, 112, 111, 114, 116, 73, 100 >>, form |-> "hex", neg |-> FALSE, body |-> << 49, 48, 48, 48, 48 >>],   \* ReportId(0x10000)
    [item |-> << 82, 101, 112, 111, 114, 116, 73, 100 >>, form |-> "hex", neg |-> FALSE, body |-> << 55, 70, 70, 70, 70, 70, 70, 70 >>],   \* ReportId(0x7FFFFFFF)
    [item |-> << 82, 101, 112, 111, 114, 116, 73, 100 >>, form |-> "hex", neg |-> FALSE, body |-> << 56, 48, 48, 48, 48, 48, 48, 48 >>],   \* ReportId(0x80000000)
    [item |-> << 82, 101, 112, 111, 114, 116, 73, 100 >>, form |-> "hex", neg |-> FALSE, body |-> << 70, 70, 70, 70, 70, 70, 70, 70 >>],   \* ReportId(0xFFFFFFFF)
    [item |-> << 82, 101, 112, 111, 114, 116, 73, 100 >>, form |-> "hex", neg |-> FALSE, body |-> << 49, 48, 48, 48, 48, 48, 48, 48, 48 >>],   \* ReportId(0x100000000)
    [item |-> << 82, 101, 112, 111, 114, 116, 73, 100 >>, form |-> "hex", neg |-> FALSE, body |-> << 49, 50, 51, 52, 53, 54, 55, 56, 57 >>],   \* ReportId(0x123456789)
    [item |-> << 82, 101, 112, 111, 114, 116, 73, 100 >>, form |-> "hex", neg |-> FALSE, body |-> << 48, 48, 48, 48, 48, 48, 48, 48, 97 >>],   \* ReportId(0x00000000a)
    [item |-> << 82, 101, 112, 111, 114, 116, 73, 100 >>, form |-> "param", neg |-> FALSE, body |-> << 97 >>],   \* ReportId({a})
    [item |-> << 82, 101, 112, 111, 114, 116, 73, 100 >>, form |-> "param", neg |-> FALSE, body |-> << 98 >>],   \* ReportId({b})
    [item |-> << 82, 101, 112, 111, 114, 116, 73, 100 >>, form |-> "param", neg |-> FALSE, body |-> << 99 >>],   \* ReportId({c})
    [item |-> << 82, 101, 112, 111, 114, 116, 73, 100 >>, form |-> "param", neg |-> FALSE, body |-> << 100 >>],   \* ReportId({d})
    [item |-> << 82, 101, 112, 111, 114, 116, 73, 100 >>, form |-> "param", neg |-> FALSE, body |-> << 101 >>],   \* ReportId({e})
    [item |-> << 82, 101, 112, 111, 114, 116, 73, 100 >>, form |-> "param", neg |-> FALSE, body |-> << 102 >>],   \* ReportId({f})
    [item |-> << 82, 101, 112, 111, 114, 116, 73, 100 >>, form |-> "param", neg |-> FALSE, body |-> << 103 >>],   \* ReportId({g})
    [item |-> << 82, 101, 112, 111, 114, 116, 73, 100 >>, form |-> "param", neg |-> FALSE, body |-> << 104 >>],   \* ReportId({h})
    [item |-> << 82, 101, 112, 111, 114, 116, 73, 100 >>, form |-> "param", neg |-> FALSE, body |-> << 105 >>],   \* ReportId({i})
    [item |-> << 85, 115, 97, 103, 101 >>, form |-> "dec", neg |-> FALSE, body |-> << 48 >>],   \* Usage(0)
    [item |-> << 85, 115, 97, 103, 101 >>, form |-> "dec", neg |-> FALSE, body |-> << 49 >>],   \* Usage(1)
    [item |-> << 85, 115, 97, 103, 101 >>, form |-> "dec", neg |-> FALSE, body |-> << 49, 50, 55 >>],   \* Usage(127)
    [item |-> << 85, 115, 97, 103, 101 >>, form |-> "dec", neg |-> FALSE, body |-> << 49, 50, 56 >>],   \* Usage(128)
    [item |-> << 85, 115, 97, 103, 101 >>, form |-> "dec", neg |-> FALSE, body |-> << 50, 53, 53 >>],   \* Usage(255)
    [item |-> << 85, 115, 97, 103, 101 >>, form |-> "dec", neg |-> FALSE, body |-> << 50, 53, 54 >>],   \* Usage(256)
    [item |-> << 85, 115, 97, 103, 101 >>, form |-> "dec", neg |-> FALSE, body |-> << 51, 50, 55, 54, 55 >>],   \* Usage(32767)
    [item |-> << 85, 115, 97, 103, 101 >>, form |-> "dec", neg |-> FALSE, body |-> << 51, 50, 55, 54, 56 >>],   \* Usage(32768)
    [item |-> << 85, 115, 97, 103, 101 >>, form |-> "dec", neg |-> FALSE, body |-> << 54, 53, 53, 51, 53 >>],   \* Usage(65535)
    [item |-> << 85, 115, 97, 103, 101 >>, form |-> "dec", neg |-> FALSE, body |-> << 54, 53, 53, 51, 54 >>],   \* Usage(65536)
    [item |-> << 85, 115, 97, 103, 101 >>, form |-> "dec", neg |-> FALSE, body |-> << 50, 49, 52, 55, 52, 56, 51, 54, 52, 55 >>],   \* Usage(2147483647)
    [item |-> << 85, 115, 97, 103, 101 >>, form |-> "dec", neg |-> FALSE, body |-> << 50, 49, 52, 55, 52, 56, 51, 54, 52, 56 >>],   \* Usage(2147483648)
    [item |-> << 85, 115, 97, 103, 101 >>, form |-> "dec", neg |-> FALSE, body |-> << 52, 50, 57, 52, 57, 54, 55, 50, 57, 53 >>],   \* Usage(4294967295)
    [item |-> << 85, 115, 97, 103, 101 >>, form |-> "dec", neg |-> FALSE, body |-> << 52, 50, 57, 52, 57, 54, 55, 50, 57, 54 >>],   \* Usage(4294967296)
    [item |-> << 85, 115, 97, 103, 101 >>, form |-> "dec", neg |-> FALSE, body |-> << 53, 51, 54, 56, 55, 48, 57, 49, 50, 48 >>],   \* Usage(5368709120)
    [item |-> << 85, 115, 97, 103, 101 >>, form |-> "dec", neg |-> FALSE, body |-> << 52, 50, 57, 52, 57, 54, 55, 50, 57, 53, 48 >>],   \* Usage(42949672950)
    [item |-> << 85, 115, 97, 103, 101 >>, form |-> "dec", neg |-> FALSE, body |-> << 48, 48, 48, 48, 48, 48, 48, 48, 48, 48, 48, 48, 49 >>],   \* Usage(0000000000001)
    [item |-> << 85, 115, 97, 103, 101 >>, form |-> "dec", neg |-> TRUE, body |-> << 49 >>],   \* Usage(-1)
    [item |-> << 85, 115, 97, 103, 101 >>, form |-> "dec", neg |-> TRUE, body |-> << 49, 50, 56 >>],   \* Usage(-128)
    [item |-> << 85, 115, 97, 103, 101 >>, form |-> "dec", neg |-> TRUE, body |-> << 49, 50, 57 >>],   \* Usage(-129)
    [item |-> << 85, 115, 97, 103, 101 >>, form |-> "dec", neg |-> TRUE, body |-> << 51, 50, 55, 54, 56 >>],   \* Usage(-32768)
    [item |-> << 85, 115, 97, 103, 101 >>, form |-> "dec", neg |-> TRUE, body |-> << 51, 50, 55, 54, 57 >>],   \* Usage(-32769)
    [item |-> << 85, 115, 97, 103, 101 >>, form |-> "dec", neg |-> TRUE, body |-> << 50, 49, 52, 55, 52, 56, 51, 54, 52, 56 >>],   \* Usage(-2147483648)
    [item |-> << 85, 115, 97, 103, 101 >>, form |-> "dec", neg |-> TRUE, body |-> << 50, 49, 52, 55, 52, 56, 51, 54, 52, 57 >>],   \* Usage(-2147483649)
    [item |-> << 85, 115, 97, 103, 101 >>, form |-> "hex", neg |-> FALSE, body |-> << 48 >>],   \* Usage(0x0)
    [item |-> << 85, 115, 97, 103, 101 >>, form |-> "hex", neg |-> FALSE, body |-> << 55, 70 >>],   \* Usage(0x7F)
    [item |-> << 85, 115, 97, 103, 101 >>, form |-> "hex", neg |-> FALSE, body |-> << 56, 48 >>],   \* Usage(0x80)
    [item |-> << 85, 115, 97, 103, 101 >>, form |-> "hex", neg |-> FALSE, body |-> << 102, 102 >>],   \* Usage(0xff)
    [item |-> << 85, 115, 97, 103, 101 >>, form |-> "hex", neg |-> FALSE, body |-> << 49, 48, 48 >>],   \* Usage(0x100)
    [item |-> << 85, 115, 97, 103, 101 >>, form |-> "hex", neg |-> FALSE, body |-> << 55, 70, 70, 70 >>],   \* Usage(0x7FFF)
    [item |-> << 85, 115, 97, 103, 101 >>, form |-> "hex", neg |-> FALSE, body |-> << 56, 48, 48, 48 >>],   \* Usage(0x8000)
    [item |-> << 85, 115, 97, 103, 101 >>, form |-> "hex", neg |-> FALSE, body |-> << 70, 70, 70, 70 >>],   \* Usage(0xFFFF)
    [item |-> << 85, 115, 97, 103, 101 >>, form |-> "hex", neg |-> FALSE, body |-> << 49, 48, 48, 48, 48 >>],   \* Usage(0x10000)
    [item |-> << 85, 115, 97, 103, 101 >>, form |-> "hex", neg |-> FALSE, body |-> << 55, 70, 70, 70, 70, 70, 70, 70 >>],   \* Usage(0x7FFFFFFF)
    [item |-> << 85, 115, 97, 103, 101 >>, form |-> "hex", neg |-> FALSE, body |-> << 56, 48, 48, 48, 48, 48, 48, 48 >>],   \* Usage(0x80000000)
    [item |-> << 85, 115, 97, 103, 101 >>, form |-> "hex", neg |-> FALSE, body |-> << 70, 70, 70, 70, 70, 70, 70, 70 >>],   \* Usage(0xFFFFFFFF)
    [item |-> << 85, 115, 97, 103, 101 >>, form |-> "hex", neg |-> FALSE, body |-> << 49, 48, 48, 48, 48, 48, 48, 48, 48 >>],   \* Usage(0x100000000)
    [item |-> << 85, 115, 97, 103, 101 >>, form |-> "hex", neg |-> FALSE, body |-> << 49, 50, 51, 52, 53, 54, 55, 56, 57 >>],   \* Usage(0x123456789)
    [item |-> << 85, 115, 97, 103, 101 >>, form |-> "hex", neg |-> FALSE, body |-> << 48, 48, 48, 48, 48, 48, 48, 48, 97 >>],   \* Usage(0x00000000a)
    [item |-> << 85, 115, 97, 103, 101 >>, form |-> "param", neg |-> FALSE, body |-> << 97 >>],   \* Usage({a})
    [item |-> << 85, 115, 97, 103, 101 >>, form |-> "param", neg |-> FALSE, body |-> << 98 >>],   \* Usage({b})
    [item |-> << 85, 115, 97, 103, 101 >>, form |-> "param", neg |-> FALSE, body |-> << 99 >>],   \* Usage({c})
    [item |-> << 85, 115, 97, 103, 101 >>, form |-> "param", neg |-> FALSE, body |-> << 100 >>],   \* Usage({d})
    [item |-> << 85, 115, 97, 103, 101 >>, form |-> "param", neg |-> FALSE, body |-> << 101 >>],   \* Usage({e})
    [item |-> << 85, 115, 97, 103, 101 >>, form |-> "param", neg |-> FALSE, body |-> << 102 >>],   \* Usage({f})
    [item |-> << 85, 115, 97, 103, 101 >>, form |-> "param", neg |-> FALSE, body |-> << 103 >>],   \* Usage({g})
    [item |-> << 85, 115, 97, 103, 101 >>, form |-> "param", neg |-> FALSE, body |-> << 104 >>],   \* Usage({h})
    [item |-> << 85, 115, 97, 103, 101 >>, form |-> "param", neg |-> FALSE, body |-> << 105 >>],   \* Usage({i})
    [item |-> << 82, 101, 112, 111, 114, 116, 83, 105, 122, 101 >>, form |-> "dec", neg |-> FALSE, body |-> << 48 >>],   \* ReportSize(0)
    [item |-> << 82, 101, 112, 111, 114, 116, 83, 105, 122, 101 >>, form |-> "dec", neg |-> FALSE, body |-> << 49 >>],   \* ReportSize(1)
    [item |-> << 82, 101, 112, 111, 114, 116, 83, 105, 122, 101 >>, form |-> "dec", neg |-> FALSE, body |-> << 49, 50, 55 >>],   \* ReportSize(127)
    [item |-> << 82, 101, 112, 111, 114, 116, 83, 105, 122, 101 >>, form |-> "dec", neg |-> FALSE, body |-> << 49, 50, 56 >>],   \* ReportSize(128)
    [item |-> << 82, 101, 112, 111, 114, 116, 83, 105, 122, 101 >>, form |-> "dec", neg |-> FALSE, body |-> << 50, 53, 53 >>],   \* ReportSize(255)
    [item |-> << 82, 101, 112, 111, 114, 116, 83, 105, 122, 101 >>, form |-> "dec", neg |-> FALSE, body |-> << 50, 53, 54 >>],   \* ReportSize(256)
    [item |-> << 82, 101, 112, 111, 114, 116, 83, 105, 122, 101 >>, form |-> "dec", neg |-> FALSE, body |-> << 51, 50, 55, 54, 55 >>],   \* ReportSize(32767)
    [item |-> << 82, 101, 112, 111, 114, 116, 83, 105, 122, 101 >>, form |-> "dec", neg |-> FALSE, body |-> << 51, 50, 55, 54, 56 >>],   \* ReportSize(32768)
    [item |-> << 82, 101, 112, 111, 114, 116, 83, 105, 122, 101 >>, form |-> "dec", neg |-> FALSE, body |-> << 54, 53, 53, 51, 53 >>],   \* ReportSize(65535)
    [item |-> << 82, 101, 112, 111, 114, 116, 83, 105, 122, 101 >>, form |-> "dec", neg |-> FALSE, body |-> << 54, 53, 53, 51, 54 >>],   \* ReportSize(65536)
    [item |-> << 82, 101, 112, 111, 114, 116, 83, 105, 122, 101 >>, form |-> "dec", neg |-> FALSE, body |-> << 50, 49, 52, 55, 52, 56, 51, 54, 52, 55 >>],   \* ReportSize(2147483647)
    [item |-> << 82, 101, 112, 111, 114, 116, 83, 105, 122, 101 >>, form |-> "dec", neg |-> FALSE, body |-> << 50, 49, 52, 55, 52, 56, 51, 54, 52, 56 >>],   \* ReportSize(2147483648)
    [item |-> << 82, 101, 112, 111, 114, 116, 83, 105, 122, 101 >>, form |-> "dec", neg |-> FALSE, body |-> << 52, 50, 57, 52, 57, 54, 55, 50, 57, 53 >>],   \* ReportSize(4294967295)
    [item |-> << 82, 101, 112, 111, 114, 116, 83, 105, 122, 101 >>, form |-> "dec", neg |-> FALSE, body |-> << 52, 50, 57, 52, 57, 54, 55, 50, 57, 54 >>],   \* ReportSize(4294967296)
    [item |-> << 82, 101, 112, 111, 114, 116, 83, 105, 122, 101 >>, form |-> "dec", neg |-> FALSE, body |-> << 53, 51, 54, 56, 55, 48, 57, 49, 50, 48 >>],   \* ReportSize(5368709120)
    [item |-> << 82, 101, 112, 111, 114, 116, 83, 105, 122, 101 >>, form |-> "dec", neg |-> FALSE, body |-> << 52, 50, 57, 52, 57, 54, 55, 50, 57, 53, 48 >>],   \* ReportSize(42949672950)
    [item |-> << 82, 101, 112, 111, 114, 116, 83, 105, 122, 101 >>, form |-> "dec", neg |-> FALSE, body |-> << 48, 48, 48, 48, 48, 48, 48, 48, 48, 48, 48, 48, 49 >>],   \* ReportSize(0000000000001)
    [item |-> << 82, 101, 112, 111, 114, 116, 83, 105, 122, 101 >>, form |-> "dec", neg |-> TRUE, body |-> << 49 >>],   \* ReportSize(-1)
    [item |-> << 82, 101, 112, 111, 114, 116, 83, 105, 122, 101 >>, form |-> "dec", neg |-> TRUE, body |-> << 49, 50, 56 >>],   \* ReportSize(-128)
    [item |-> << 82, 101, 112, 111, 114, 116, 83, 105, 122, 101 >>, form |-> "dec", neg |-> TRUE, body |-> << 49, 50, 57 >>],   \* ReportSize(-129)
    [item |-> << 82, 101, 112, 111, 114, 116, 83, 105, 122, 101 >>, form |-> "dec", neg |-> TRUE, body |-> << 51, 50, 55, 54, 56 >>],   \* ReportSize(-32768)
    [item |-> << 82, 101, 112, 111, 114, 116, 83, 105, 122, 101 >>, form |-> "dec", neg |-> TRUE, body |-> << 51, 50, 55, 54, 57 >>],   \* ReportSize(-32769)
    [item |-> << 82, 101, 112, 111, 114, 116, 83, 105, 122, 101 >>, form |-> "dec", neg |-> TRUE, body |-> << 50, 49, 52, 55, 52, 56, 51, 54, 52, 56 >>],   \* ReportSize(-2147483648)
    [item |-> << 82, 101, 112, 111, 114, 116, 83, 105, 122, 101 >>, form |-> "dec", neg |-> TRUE, body |-> << 50, 49, 52, 55, 52, 56, 51, 54, 52, 57 >>],   \* ReportSize(-2147483649)
    [item |-> << 82, 101, 112, 111, 114, 116, 83, 105, 122, 101 >>, form |-> "hex", neg |-> FALSE, body |-> << 48 >>],   \* ReportSize(0x0)
    [item |-> << 82, 101, 112, 111, 114, 116, 83, 105, 122, 101 >>, form |-> "hex", neg |-> FALSE, body |-> << 55, 70 >>],   \* ReportSize(0x7F)
    [item |-> << 82, 101, 112, 111, 114, 116, 83, 105, 122, 101 >>, form |-> "hex", neg |-> FALSE, body |-> << 56, 48 >>],   \* ReportSize(0x80)
    [item |-> << 82, 101, 112, 111, 114, 116, 83, 105, 122, 101 >>, form |-> "hex", neg |-> FALSE, body |-> << 102, 102 >>],   \* ReportSize(0xff)
    [item |-> << 82, 101, 112, 111, 114, 116, 83, 105, 122, 101 >>, form |-> "hex", neg |-> FALSE, body |-> << 49, 48, 48 >>],   \* ReportSize(0x100)
    [item |-> << 82, 101, 112, 111, 114, 116, 83, 105, 122, 101 >>, form |-> "hex", neg |-> FALSE, body |-> << 55, 70, 70, 70 >>],   \* ReportSize(0x7FFF)
    [item |-> << 82, 101, 112, 111, 114, 116, 83, 105, 122, 101 >>, form |-> "hex", neg |-> FALSE, body |-> << 56, 48, 48, 48 >>],   \* ReportSize(0x8000)
    [item |-> << 82, 101, 112, 111, 114, 116, 83, 105, 122, 101 >>, form |-> "hex", neg |-> FALSE, body |-> << 70, 70, 70, 70 >>],   \* ReportSize(0xFFFF)
    [item |-> << 82, 101, 112, 111, 114, 116, 83, 105, 122, 101 >>, form |-> "hex", neg |-> FALSE, body |-> << 49, 48, 48, 48, 48 >>],   \* ReportSize(0x10000)
    [item |-> << 82, 101, 112, 111, 114, 116, 83, 105, 122, 101 >>, form |-> "hex", neg |-> FALSE, body |-> << 55, 70, 70, 70, 70, 70, 70, 70 >>],   \* ReportSize(0x7FFFFFFF)
    [item |-> << 82, 101, 112, 111, 114, 116, 83, 105, 122, 101 >>, form |-> "hex", neg |-> FALSE, body |-> << 56, 48, 48, 48, 48, 48, 48, 48 >>],   \* ReportSize(0x80000000)
    [item |-> << 82, 101, 112, 111, 114, 116, 83, 105, 122, 101 >>, form |-> "hex", neg |-> FALSE, body |-> << 70, 70, 70, 70, 70, 70, 70, 70 >>],   \* ReportSize(0xFFFFFFFF)
    [item |-> << 82, 101, 112, 111, 114, 116, 83, 105, 122, 101 >>, form |-> "hex", neg |-> FALSE, body |-> << 49, 48, 48, 48, 48, 48, 48, 48, 48 >>],   \* ReportSize(0x100000000)
    [item |-> << 82, 101, 112, 111, 114, 116, 83, 105, 122, 101 >>, form |-> "hex", neg |-> FALSE, body |-> << 49, 50, 51, 52, 53, 54, 55, 56, 57 >>],   \* ReportSize(0x123456789)
    [item |-> << 82, 101, 112, 111, 114, 116, 83, 105, 122, 101 >>, form |-> "hex", neg |-> FALSE, body |-> << 48, 48, 48, 48, 48, 48, 48, 48, 97 >>],   \* ReportSize(0x00000000a)
    [item |-> << 82, 101, 112, 111, 114, 116, 83, 105, 122, 101 >>, form |-> "param", neg |-> FALSE, body |-> << 97 >>],   \* ReportSize({a})
    [item |-> << 82, 101, 112, 111, 114, 116, 83, 105, 122, 101 >>, form |-> "param", neg |-> FALSE, body |-> << 98 >>],   \* ReportSize({b})
    [item |-> << 82, 101, 112, 111, 114, 116, 83, 105, 122, 101 >>, form |-> "param", neg |-> FALSE, body |-> << 99 >>],   \* ReportSize({c})
    [item |-> << 82, 101, 112, 111, 114, 116, 83, 105, 122, 101 >>, form |-> "param", neg |-> FALSE, body |-> << 100 >>],   \* ReportSize({d})
    [item |-> << 82, 101, 112, 111, 114, 116, 83, 105, 122, 101 >>, form |-> "param", neg |-> FALSE, body |-> << 101 >>],   \* ReportSize({e})
    [item |-> << 82, 101, 112, 111, 114, 116, 83, 105, 122, 101 >>, form |-> "param", neg |-> FALSE, body |-> << 102 >>],   \* ReportSize({f})
    [item |-> << 82, 101, 112, 111, 114, 116, 83, 105, 122, 101 >>, form |-> "param", neg |-> FALSE, body |-> << 103 >>],   \* ReportSize({g})
    [item |-> << 82, 101, 112, 111, 114, 116, 83, 105, 122, 101 >>, form |-> "param", neg |-> FALSE, body |-> << 104 >>],   \* ReportSize({h})
    [item |-> << 82, 101, 112, 111, 114, 116, 83, 105, 122, 101 >>, form |-> "param", neg |-> FALSE, body |-> << 105 >>]    \* ReportSize({i})
>>

\* lines of source text: minus signs in and outside argument lists, comments,
\* truncated and invalid hex prefixes, bytes of multi-byte characters, a CR
LexChunks == <<
    [item |-> << >>, form |-> "raw", neg |-> FALSE, body |-> << 45, 49 >>],   \* -1
    [item |-> << >>, form |-> "raw", neg |-> FALSE, body |-> << 80, 117, 115, 104, 32, 45, 49 >>],   \* Push -1
    [item |-> << >>, form |-> "raw", neg |-> FALSE, body |-> << 35, 32, 45, 49, 32, 195, 169 >>],   \* # -1 é
    [item |-> << >>, form |-> "raw", neg |-> FALSE, body |-> << 49, 45 >>],   \* 1-
    [item |-> << >>, form |-> "raw", neg |-> FALSE, body |-> << 123, 97, 45, 98, 125 >>],   \* {a-b}
    [item |-> << >>, form |-> "raw", neg |-> FALSE, body |-> << 80, 117, 115, 104, 45 >>],   \* Push-
    [item |-> << >>, form |-> "raw", neg |-> FALSE, body |-> << 48, 120 >>],   \* 0x
    [item |-> << >>, form |-> "raw", neg |-> FALSE, body |-> << 85, 115, 97, 103, 101, 40, 48, 120 >>],   \* Usage(0x
    [item |-> << >>, form |-> "raw", neg |-> FALSE, body |-> << 76, 111, 103, 105, 99, 97, 108, 77, 105, 110, 105, 109, 117, 109, 40, 45, 49, 41 >>],   \* LogicalMinimum(-1)
    [item |-> << >>, form |-> "raw", neg |-> FALSE, body |-> << 195, 169 >>],   \* é
    [item |-> << >>, form |-> "raw", neg |-> FALSE, body |-> << 80, 117, 115, 104, 13 >>],   \* Push\r
    [item |-> << >>, form |-> "raw", neg |-> FALSE, body |-> << 85, 115, 97, 103, 101, 40, 48, 120, 103, 41 >>],   \* Usage(0xg)
    [item |-> << >>, form |-> "raw", neg |-> FALSE, body |-> << 59, 32, 99 >>],   \* ; c
    [item |-> << >>, form |-> "raw", neg |-> FALSE, body |-> << 73, 110, 112, 117, 116, 40, 45, 49, 41 >>],   \* Input(-1)
    [item |-> << >>, form |-> "raw", neg |-> FALSE, body |-> << 48, 120, 49, 45 >>]    \* 0x1-
>>

\* names of items, arguments, indexed arguments, unit systems and units, hex
\* digits and a parameter name, all with letters
CaseChunks == <<
    [item |-> << 85, 115, 97, 103, 101, 80, 97, 103, 101 >>, form |-> "name", neg |-> FALSE, body |-> << 66, 117, 116, 116, 111, 110 >>],   \* UsagePage(Button)
    [item |-> << 85, 115, 97, 103, 101 >>, form |-> "name", neg |-> FALSE, body |-> << 66, 117, 116, 116, 111, 110, 51 >>],   \* Usage(Button3)
    [item |-> << 85, 115, 97, 103, 101 >>, form |-> "name", neg |-> FALSE, body |-> << 77, 111, 117, 115, 101 >>],   \* Usage(Mouse)
    [item |-> << 85, 110, 105, 116 >>, form |-> "name", neg |-> FALSE, body |-> << 83, 105, 76, 105, 110, 40, 76, 101, 110, 103, 116, 104, 41 >>],   \* Unit(SiLin(Length))
    [item |-> << 82, 101, 112, 111, 114, 116, 83, 105, 122, 101 >>, form |-> "hex", neg |-> FALSE, body |-> << 49, 102 >>],   \* ReportSize(0x1f)
    [item |-> << 85, 115, 97, 103, 101 >>, form |-> "param", neg |-> FALSE, body |-> << 98 >>],   \* Usage({b})
    [item |-> << 73, 110, 112, 117, 116 >>, form |-> "name", neg |-> FALSE, body |-> << 86, 97, 114 >>],   \* Input(Var)
    [item |-> << >>, form |-> "hex", neg |-> FALSE, body |-> << 65, 98 >>],   \* 0xAb
    [item |-> << 69, 110, 100, 67, 111, 108, 108, 101, 99, 116, 105, 111, 110 >>, form |-> "none", neg |-> FALSE, body |-> << >>]    \* EndCollection
>>

\* lines of source text: comments after '#' and ';', empty, ended by a CR, after
\* an item; '#' and ';' in an item name, an argument list, a parameter name and
\* literals; items that write bytes or leave a collection open
CommentChunks == <<
    [item |-> << >>, form |-> "raw", neg |-> FALSE, body |-> << 35, 32, 80, 117, 115, 104, 40 >>],   \* # Push(
    [item |-> << >>, form |-> "raw", neg |-> FALSE, body |-> << 59, 32, 99 >>],   \* ; c
    [item |-> << >>, form |-> "raw", neg |-> FALSE, body |-> << 80, 117, 115, 104, 32, 35, 32, 99 >>],   \* Push # c
    [item |-> << >>, form |-> "raw", neg |-> FALSE, body |-> << 80, 117, 115, 104, 35, 99 >>],   \* Push#c
    [item |-> << >>, form |-> "raw", neg |-> FALSE, body |-> << 85, 115, 97, 103, 101, 40, 49, 32, 35, 99 >>],   \* Usage(1 #c
    [item |-> << >>, form |-> "raw", neg |-> FALSE, body |-> << 123, 97, 35, 98, 125 >>],   \* {a#b}
    [item |-> << >>, form |-> "raw", neg |-> FALSE, body |-> << 49, 59, 99 >>],   \* 1;c
    [item |-> << >>, form |-> "raw", neg |-> FALSE, body |-> << 48, 120, 49, 35 >>],   \* 0x1#
    [item |-> << >>, form |-> "raw", neg |-> FALSE, body |-> << 85, 115, 97, 103, 101, 40, 49, 41 >>],   \* Usage(1)
    [item |-> << >>, form |-> "raw", neg |-> FALSE, body |-> << 35, 97, 13, 80, 117, 115, 104 >>],   \* #a\rPush
    [item |-> << >>, form |-> "raw", neg |-> FALSE, body |-> << 35 >>],   \* #
    [item |-> << >>, form |-> "raw", neg |-> FALSE, body |-> << 80, 117, 115, 104, 59 >>],   \* Push;
    [item |-> << >>, form |-> "raw", neg |-> FALSE, body |-> << 67, 111, 108, 108, 101, 99, 116, 105, 111, 110, 40, 49, 41 >>]    \* Collection(1)
>>

\* lines of source text with commas: in the argument lists of Input, Output and
\* Feature, one of them left open; in those of other items after a number, a
\* name, a unit, a hex literal, a parameter, a space and '('; in a parameter
\* name; outside argument lists
CommaChunks == <<
    [item |-> << >>, form |-> "raw", neg |-> FALSE, body |-> << 73, 110, 112, 117, 116, 40, 67, 110, 115, 116, 44, 86, 97, 114, 41 >>],   \* Input(Cnst,Var)
    [item |-> << >>, form |-> "raw", neg |-> FALSE, body |-> << 79, 117, 116, 112, 117, 116, 40, 49, 44, 50, 41 >>],   \* Output(1,2)
    [item |-> << >>, form |-> "raw", neg |-> FALSE, body |-> << 70, 101, 97, 116, 117, 114, 101, 40, 67, 110, 115, 116, 32, 44, 123, 98, 125, 41 >>],   \* Feature(Cnst ,{b})
    [item |-> << >>, form |-> "raw", neg |-> FALSE, body |-> << 73, 110, 112, 117, 116, 40, 48, 120, 49, 48, 44, 86, 97, 114, 41 >>],   \* Input(0x10,Var)
    [item |-> << >>, form |-> "raw", neg |-> FALSE, body |-> << 73, 110, 112, 117, 116, 40, 49, 44, 44, 50, 41 >>],   \* Input(1,,2)
    [item |-> << >>, form |-> "raw", neg |-> FALSE, body |-> << 73, 110, 112, 117, 116, 40, 67, 110, 115, 116 >>],   \* Input(Cnst
    [item |-> << >>, form |-> "raw", neg |-> FALSE, body |-> << 85, 115, 97, 103, 101, 40, 49, 44, 50, 41 >>],   \* Usage(1,2)
    [item |-> << >>, form |-> "raw", neg |-> FALSE, body |-> << 85, 115, 97, 103, 101, 80, 97, 103, 101, 40, 66, 117, 116, 116, 111, 110, 44, 66, 117, 116, 116, 111, 110, 41 >>],   \* UsagePage(Button,Button)
    [item |-> << >>, form |-> "raw", neg |-> FALSE, body |-> << 85, 110, 105, 116, 40, 83, 105, 76, 105, 110, 40, 76, 101, 110, 103, 116, 104, 44, 77, 97, 115, 115, 41, 41 >>],   \* Unit(SiLin(Length,Mass))
    [item |-> << >>, form |-> "raw", neg |-> FALSE, body |-> << 85, 110, 105, 116, 40, 83, 105, 76, 105, 110, 44, 83, 105, 82, 111, 116, 41 >>],   \* Unit(SiLin,SiRot)
    [item |-> << >>, form |-> "raw", neg |-> FALSE, body |-> << 82, 101, 112, 111, 114, 116, 83, 105, 122, 101, 40, 48, 120, 49, 44, 50, 41 >>],   \* ReportSize(0x1,2)
    [item |-> << >>, form |-> "raw", neg |-> FALSE, body |-> << 82, 101, 112, 111, 114, 116, 83, 105, 122, 101, 40, 123, 97, 44, 98, 125, 41 >>],   \* ReportSize({a,b})
    [item |-> << >>, form |-> "raw", neg |-> FALSE, body |-> << 82, 101, 112, 111, 114, 116, 83, 105, 122, 101, 40, 123, 98, 125, 44, 49, 41 >>],   \* ReportSize({b},1)
    [item |-> << >>, form |-> "raw", neg |-> FALSE, body |-> << 82, 101, 112, 111, 114, 116, 67, 111, 117, 110, 116, 40, 49, 32, 44, 50, 41 >>],   \* ReportCount(1 ,2)
    [item |-> << >>, form |-> "raw", neg |-> FALSE, body |-> << 82, 101, 112, 111, 114, 116, 67, 111, 117, 110, 116, 40, 44, 49, 41 >>],   \* ReportCount(,1)
    [item |-> << >>, form |-> "raw", neg |-> FALSE, body |-> << 80, 117, 115, 104, 44 >>],   \* Push,
    [item |-> << >>, form |-> "raw", neg |-> FALSE, body |-> << 44 >>]    \* ,
>>

\* arguments of Input, Output and Feature: names that set and that clear a
\* bit, Vol and NVol that Input does not have, numbers and a parameter
FlagArgs == <<
    [form |-> "name", neg |-> FALSE, body |-> << 67, 110, 115, 116 >>],   \* Cnst
    [form |-> "name", neg |-> FALSE, body |-> << 68, 97, 116, 97 >>],   \* Data
    [form |-> "name", neg |-> FALSE, body |-> << 86, 111, 108 >>],   \* Vol
    [form |-> "name", neg |-> FALSE, body |-> << 78, 86, 111, 108 >>],   \* NVol
    [form |-> "name", neg |-> FALSE, body |-> << 66, 105, 116 >>],   \* Bit
    [form |-> "dec", neg |-> FALSE, body |-> << 51 >>],   \* 3
    [form |-> "hex", neg |-> FALSE, body |-> << 49, 48, 50 >>],   \* 0x102
    [form |-> "param", neg |-> FALSE, body |-> << 98 >>]    \* {b}
>>

\* Input, Output and Feature with every list of one or two of FlagArgs
FlagChunks ==
    LET K     == Len(FlagArgs)
        items == << << 73, 110, 112, 117, 116 >>, << 79, 117, 116, 112, 117, 116 >>,
                    << 70, 101, 97, 116, 117, 114, 101 >> >>
        list(j) == IF j <= K THEN << FlagArgs[j] >>
                   ELSE << FlagArgs[((j - K - 1) \div K) + 1], FlagArgs[((j - K - 1) % K) + 1] >>
    IN  [i \in 1..(3 * (K + K * K)) |->
            [item |-> items[((i - 1) \div (K + K * K)) + 1], form |-> "list", neg |-> FALSE,
             body |-> list(((i - 1) % (K + K * K)) + 1)]]

\* Unit with a unit system and a description of no, one or two units out of
\* Length and Luminous, each without exponent or with one of 0, 7, -8, -1, 8,
\* -0, 01; UnitExponent with numbers, hex numbers and parameters in and
\* outside -8..7
UnitChunks ==
    LET units   == << << 76, 101, 110, 103, 116, 104 >>, << 76, 117, 109, 105, 110, 111, 117, 115 >> >>
        exps    == << << >>, << 48 >>, << 55 >>, << 45, 56 >>, << 45, 49 >>, << 56 >>, << 45, 48 >>, << 48, 49 >> >>
        E       == Len(exps)
        T       == Len(units) * E
        term(i) == LET u == units[((i - 1) \div E) + 1]
                       e == exps[((i - 1) % E) + 1]
                   IN  [form |-> "name", neg |-> FALSE, unit |-> u, exp |-> e,
                        body |-> IF e = << >> THEN u ELSE u \o << 94 >> \o e]
        firsts  == << term(1), term(3), term(E + 4), term(6) >>
        list(j) == IF j = 1 THEN << >>
                   ELSE IF j <= T + 1 THEN << term(j - 1) >>
                   ELSE << firsts[((j - T - 2) \div T) + 1], term(((j - T - 2) % T) + 1) >>
        L       == 1 + T + Len(firsts) * T
        systems == << << 83, 105, 76, 105, 110 >>, << 69, 110, 103, 82, 111, 116 >> >>
    IN  [i \in 1..(Len(systems) * L) |->
            [item |-> << 85, 110, 105, 116 >>, form |-> "unit", neg |-> FALSE,
             sys |-> systems[((i - 1) \div L) + 1], body |-> list(((i - 1) % L) + 1)]]
        \o <<
        [item |-> << 85, 110, 105, 116, 69, 120, 112, 111, 110, 101, 110, 116 >>, form |-> "dec", neg |-> FALSE, body |-> << 48 >>],   \* UnitExponent(0)
        [item |-> << 85, 110, 105, 116, 69, 120, 112, 111, 110, 101, 110, 116 >>, form |-> "dec", neg |-> FALSE, body |-> << 55 >>],   \* UnitExponent(7)
        [item |-> << 85, 110, 105, 116, 69, 120, 112, 111, 110, 101, 110, 116 >>, form |-> "dec", neg |-> FALSE, body |-> << 56 >>],   \* UnitExponent(8)
        [item |-> << 85, 110, 105, 116, 69, 120, 112, 111, 110, 101, 110, 116 >>, form |-> "dec", neg |-> TRUE, body |-> << 49 >>],   \* UnitExponent(-1)
        [item |-> << 85, 110, 105, 116, 69, 120, 112, 111, 110, 101, 110, 116 >>, form |-> "dec", neg |-> TRUE, body |-> << 56 >>],   \* UnitExponent(-8)
        [item |-> << 85, 110, 105, 116, 69, 120, 112, 111, 110, 101, 110, 116 >>, form |-> "dec", neg |-> TRUE, body |-> << 57 >>],   \* UnitExponent(-9)
        [item |-> << 85, 110, 105, 116, 69, 120, 112, 111, 110, 101, 110, 116 >>, form |-> "dec", neg |-> TRUE, body |-> << 48 >>],   \* UnitExponent(-0)
        [item |-> << 85, 110, 105, 116, 69, 120, 112, 111, 110, 101, 110, 116 >>, form |-> "dec", neg |-> FALSE, body |-> << 52, 50, 57, 52, 57, 54, 55, 50, 57, 53 >>],   \* UnitExponent(4294967295)
        [item |-> << 85, 110, 105, 116, 69, 120, 112, 111, 110, 101, 110, 116 >>, form |-> "dec", neg |-> FALSE, body |-> << 52, 50, 57, 52, 57, 54, 55, 50, 56, 55 >>],   \* UnitExponent(4294967287)
        [item |-> << 85, 110, 105, 116, 69, 120, 112, 111, 110, 101, 110, 116 >>, form |-> "hex", neg |-> FALSE, body |-> << 70 >>],   \* UnitExponent(0xF)
        [item |-> << 85, 110, 105, 116, 69, 120, 112, 111, 110, 101, 110, 116 >>, form |-> "hex", neg |-> FALSE, body |-> << 70, 70, 70, 70, 70, 70, 70, 56 >>],   \* UnitExponent(0xFFFFFFF8)
        [item |-> << 85, 110, 105, 116, 69, 120, 112, 111, 110, 101, 110, 116 >>, form |-> "param", neg |-> FALSE, body |-> << 99 >>],   \* UnitExponent({c})
        [item |-> << 85, 110, 105, 116, 69, 120, 112, 111, 110, 101, 110, 116 >>, form |-> "param", neg |-> FALSE, body |-> << 100 >>],   \* UnitExponent({d})
        [item |-> << 85, 110, 105, 116, 69, 120, 112, 111, 110, 101, 110, 116 >>, form |-> "param", neg |-> FALSE, body |-> << 98 >>],   \* UnitExponent({b})
        [item |-> << 85, 110, 105, 116, 69, 120, 112, 111, 110, 101, 110, 116 >>, form |-> "param", neg |-> FALSE, body |-> << 97 >>]    \* UnitExponent({a})
        >>

\* usage pages with indexed usage names and usages named by index, in and out
\* of range, with leading zeros, without digits, overflowing; usages and usage
\* pages given as numbers up to and above 0xFFFF; parameters at top level and
\* as arguments of unsigned and signed items, known and unknown, in and out of
\* range
ArgChunks == <<
    [item |-> << 85, 115, 97, 103, 101, 80, 97, 103, 101 >>, form |-> "name", neg |-> FALSE, body |-> << 66, 117, 116, 116, 111, 110 >>],   \* UsagePage(Button)
    [item |-> << 85, 115, 97, 103, 101, 80, 97, 103, 101 >>, form |-> "name", neg |-> FALSE, body |-> << 79, 114, 100, 105, 110, 97, 108 >>],   \* UsagePage(Ordinal)
    [item |-> << 85, 115, 97, 103, 101, 80, 97, 103, 101 >>, form |-> "name", neg |-> FALSE, body |-> << 85, 110, 105, 99, 111, 100, 101 >>],   \* UsagePage(Unicode)
    [item |-> << 85, 115, 97, 103, 101, 80, 97, 103, 101 >>, form |-> "name", neg |-> FALSE, body |-> << 77, 111, 110, 105, 116, 111, 114, 69, 110, 117, 109, 101, 114, 97, 116, 101, 100, 86, 97, 108, 117, 101, 115 >>],   \* UsagePage(MonitorEnumeratedValues)
    [item |-> << 85, 115, 97, 103, 101 >>, form |-> "name", neg |-> FALSE, body |-> << 66, 117, 116, 116, 111, 110, 49 >>],   \* Usage(Button1)
    [item |-> << 85, 115, 97, 103, 101 >>, form |-> "name", neg |-> FALSE, body |-> << 98, 117, 116, 116, 111, 110, 54, 53, 53, 51, 53 >>],   \* Usage(button65535)
    [item |-> << 85, 115, 97, 103, 101 >>, form |-> "name", neg |-> FALSE, body |-> << 66, 117, 116, 116, 111, 110, 54, 53, 53, 51, 54 >>],   \* Usage(Button65536)
    [item |-> << 85, 115, 97, 103, 101 >>, form |-> "name", neg |-> FALSE, body |-> << 66, 117, 116, 116, 111, 110, 48 >>],   \* Usage(Button0)
    [item |-> << 85, 115, 97, 103, 101 >>, form |-> "name", neg |-> FALSE, body |-> << 66, 117, 116, 116, 111, 110, 48, 49 >>],   \* Usage(Button01)
    [item |-> << 85, 115, 97, 103, 101 >>, form |-> "name", neg |-> FALSE, body |-> << 66, 117, 116, 116, 111, 110, 48, 48 >>],   \* Usage(Button00)
    [item |-> << 85, 115, 97, 103, 101 >>, form |-> "name", neg |-> FALSE, body |-> << 66, 117, 116, 116, 111, 110 >>],   \* Usage(Button)
    [item |-> << 85, 115, 97, 103, 101 >>, form |-> "name", neg |-> FALSE, body |-> << 66, 117, 116, 116, 111, 110, 49, 120 >>],   \* Usage(Button1x)
    [item |-> << 85, 115, 97, 103, 101 >>, form |-> "name", neg |-> FALSE, body |-> << 66, 117, 116, 116, 111, 49 >>],   \* Usage(Butto1)
    [item |-> << 85, 115, 97, 103, 101 >>, form |-> "name", neg |-> FALSE, body |-> << 66, 117, 116, 116, 111, 110, 52, 50, 57, 52, 57, 54, 55, 50, 57, 55 >>],   \* Usage(Button4294967297)
    [item |-> << 85, 115, 97, 103, 101 >>, form |-> "name", neg |-> FALSE, body |-> << 66, 117, 116, 116, 111, 110, 53, 51, 54, 56, 55, 48, 57, 49, 50, 48 >>],   \* Usage(Button5368709120)
    [item |-> << 85, 115, 97, 103, 101 >>, form |-> "name", neg |-> FALSE, body |-> << 69, 110, 117, 109, 48 >>],   \* Usage(Enum0)
    [item |-> << 85, 115, 97, 103, 101 >>, form |-> "name", neg |-> FALSE, body |-> << 69, 110, 117, 109, 48, 48 >>],   \* Usage(Enum00)
    [item |-> << 85, 115, 97, 103, 101 >>, form |-> "name", neg |-> FALSE, body |-> << 69, 78, 85, 77, 54, 50 >>],   \* Usage(ENUM62)
    [item |-> << 85, 115, 97, 103, 101 >>, form |-> "name", neg |-> FALSE, body |-> << 69, 110, 117, 109, 54, 51 >>],   \* Usage(Enum63)
    [item |-> << 85, 115, 97, 103, 101 >>, form |-> "name", neg |-> FALSE, body |-> << 85, 99, 115, 48 >>],   \* Usage(Ucs0)
    [item |-> << 85, 115, 97, 103, 101 >>, form |-> "name", neg |-> FALSE, body |-> << 85, 99, 115, 54, 53, 53, 51, 53 >>],   \* Usage(Ucs65535)
    [item |-> << 85, 115, 97, 103, 101 >>, form |-> "name", neg |-> FALSE, body |-> << 73, 110, 115, 116, 97, 110, 99, 101, 49 >>],   \* Usage(Instance1)
    [item |-> << 85, 115, 97, 103, 101 >>, form |-> "name", neg |-> FALSE, body |-> << 73, 110, 115, 116, 97, 110, 99, 101, 48 >>],   \* Usage(Instance0)
    [item |-> << 85, 115, 97, 103, 101 >>, form |-> "name", neg |-> FALSE, body |-> << 78, 111, 66, 117, 116, 116, 111, 110, 80, 114, 101, 115, 115, 101, 100 >>],   \* Usage(NoButtonPressed)
    [item |-> << 85, 115, 97, 103, 101 >>, form |-> "dec", neg |-> FALSE, body |-> << 54, 53, 53, 51, 53 >>],   \* Usage(65535)
    [item |-> << 85, 115, 97, 103, 101 >>, form |-> "dec", neg |-> FALSE, body |-> << 54, 53, 53, 51, 54 >>],   \* Usage(65536)
    [item |-> << 85, 115, 97, 103, 101 >>, form |-> "hex", neg |-> FALSE, body |-> << 49, 48, 48, 48, 48 >>],   \* Usage(0x10000)
    [item |-> << 85, 115, 97, 103, 101 >>, form |-> "param", neg |-> FALSE, body |-> << 105 >>],   \* Usage({i})
    [item |-> << 85, 115, 97, 103, 101 >>, form |-> "param", neg |-> FALSE, body |-> << 98 >>],   \* Usage({b})
    [item |-> << 85, 115, 97, 103, 101, 80, 97, 103, 101 >>, form |-> "dec", neg |-> FALSE, body |-> << 54, 53, 53, 51, 54 >>],   \* UsagePage(65536)
    [item |-> << 85, 115, 97, 103, 101, 80, 97, 103, 101 >>, form |-> "hex", neg |-> FALSE, body |-> << 70, 70, 70, 70 >>],   \* UsagePage(0xFFFF)
    [item |-> << 85, 115, 97, 103, 101, 77, 105, 110, 105, 109, 117, 109 >>, form |-> "dec", neg |-> FALSE, body |-> << 54, 53, 53, 51, 54 >>],   \* UsageMinimum(65536)
    [item |-> << 85, 115, 97, 103, 101, 77, 97, 120, 105, 109, 117, 109 >>, form |-> "param", neg |-> FALSE, body |-> << 100 >>],   \* UsageMaximum({d})
    [item |-> << 85, 115, 97, 103, 101, 77, 97, 120, 105, 109, 117, 109 >>, form |-> "hex", neg |-> FALSE, body |-> << 70, 70, 70, 70 >>],   \* UsageMaximum(0xFFFF)
    [item |-> << >>, form |-> "param", neg |-> FALSE, body |-> << 98 >>],   \* {b}
    [item |-> << >>, form |-> "param", neg |-> FALSE, body |-> << 99 >>],   \* {c}
    [item |-> << >>, form |-> "param", neg |-> FALSE, body |-> << 101 >>],   \* {e}
    [item |-> << >>, form |-> "param", neg |-> FALSE, body |-> << 100 >>],   \* {d}
    [item |-> << >>, form |-> "param", neg |-> FALSE, body |-> << 120 >>],   \* {x}
    [item |-> << >>, form |-> "param", neg |-> FALSE, body |-> << 32, 98, 32 >>],   \* { b }
    [item |-> << >>, form |-> "param", neg |-> FALSE, body |-> << 66 >>],   \* {B}
    [item |-> << 82, 101, 112, 111, 114, 116, 83, 105, 122, 101 >>, form |-> "param", neg |-> FALSE, body |-> << 101 >>],   \* ReportSize({e})
    [item |-> << 82, 101, 112, 111, 114, 116, 83, 105, 122, 101 >>, form |-> "param", neg |-> FALSE, body |-> << 99 >>],   \* ReportSize({c})
    [item |-> << 82, 101, 112, 111, 114, 116, 83, 105, 122, 101 >>, form |-> "param", neg |-> FALSE, body |-> << 100 >>],   \* ReportSize({d})
    [item |-> << 76, 111, 103, 105, 99, 97, 108, 77, 105, 110, 105, 109, 117, 109 >>, form |-> "param", neg |-> FALSE, body |-> << 99 >>],   \* LogicalMinimum({c})
    [item |-> << 76, 111, 103, 105, 99, 97, 108, 77, 105, 110, 105, 109, 117, 109 >>, form |-> "param", neg |-> FALSE, body |-> << 105 >>],   \* LogicalMinimum({i})
    [item |-> << 76, 111, 103, 105, 99, 97, 108, 77, 105, 110, 105, 109, 117, 109 >>, form |-> "param", neg |-> FALSE, body |-> << 103 >>],   \* LogicalMinimum({g})
    [item |-> << 76, 111, 103, 105, 99, 97, 108, 77, 105, 110, 105, 109, 117, 109 >>, form |-> "param", neg |-> FALSE, body |-> << 104 >>],   \* LogicalMinimum({h})
    [item |-> << 76, 111, 103, 105, 99, 97, 108, 77, 105, 110, 105, 109, 117, 109 >>, form |-> "param", neg |-> FALSE, body |-> << 102 >>],   \* LogicalMinimum({f})
    [item |-> << 85, 115, 97, 103, 101 >>, form |-> "param", neg |-> FALSE, body |-> << 101 >>],   \* Usage({e})
    [item |-> << 85, 115, 97, 103, 101 >>, form |-> "dec", neg |-> FALSE, body |-> << 52, 50, 57, 52, 57, 54, 55, 50, 57, 54 >>],   \* Usage(4294967296)
    [item |-> << 85, 115, 97, 103, 101, 80, 97, 103, 101 >>, form |-> "dec", neg |-> FALSE, body |-> << 53, 51, 54, 56, 55, 48, 57, 49, 50, 48 >>]    \* UsagePage(5368709120)
>>

\* a usage with its collection on two lines, and items without an argument
\* list: those that take no argument, those that need one and those that
\* may have one, and some of them with an argument list
BareChunks == <<
    [item |-> << >>, form |-> "raw", neg |-> FALSE, body |-> << 85, 115, 97, 103, 101, 40, 49, 41, 10, 67, 111, 108, 108, 101, 99, 116, 105, 111, 110, 40, 49, 41 >>],   \* Usage(1)\nCollection(1)
    [item |-> << 85, 115, 97, 103, 101 >>, form |-> "dec", neg |-> FALSE, body |-> << 49 >>],   \* Usage(1)
    [item |-> << 69, 110, 100, 67, 111, 108, 108, 101, 99, 116, 105, 111, 110 >>, form |-> "none", neg |-> FALSE, body |-> << >>],   \* EndCollection
    [item |-> << 80, 117, 115, 104 >>, form |-> "none", neg |-> FALSE, body |-> << >>],   \* Push
    [item |-> << 80, 111, 112 >>, form |-> "none", neg |-> FALSE, body |-> << >>],   \* Pop
    [item |-> << 82, 101, 112, 111, 114, 116, 83, 105, 122, 101 >>, form |-> "none", neg |-> FALSE, body |-> << >>],   \* ReportSize
    [item |-> << 82, 101, 112, 111, 114, 116, 67, 111, 117, 110, 116 >>, form |-> "none", neg |-> FALSE, body |-> << >>],   \* ReportCount
    [item |-> << 76, 111, 103, 105, 99, 97, 108, 77, 105, 110, 105, 109, 117, 109 >>, form |-> "none", neg |-> FALSE, body |-> << >>],   \* LogicalMinimum
    [item |-> << 82, 101, 112, 111, 114, 116, 73, 100 >>, form |-> "none", neg |-> FALSE, body |-> << >>],   \* ReportId
    [item |-> << 73, 110, 112, 117, 116 >>, form |-> "none", neg |-> FALSE, body |-> << >>],   \* Input
    [item |-> << 79, 117, 116, 112, 117, 116 >>, form |-> "none", neg |-> FALSE, body |-> << >>],   \* Output
    [item |-> << 70, 101, 97, 116, 117, 114, 101 >>, form |-> "none", neg |-> FALSE, body |-> << >>],   \* Feature
    [item |-> << 67, 111, 108, 108, 101, 99, 116, 105, 111, 110 >>, form |-> "none", neg |-> FALSE, body |-> << >>],   \* Collection
    [item |-> << 85, 115, 97, 103, 101, 80, 97, 103, 101 >>, form |-> "none", neg |-> FALSE, body |-> << >>],   \* UsagePage
    [item |-> << 85, 110, 105, 116, 69, 120, 112, 111, 110, 101, 110, 116 >>, form |-> "none", neg |-> FALSE, body |-> << >>],   \* UnitExponent
    [item |-> << 85, 110, 105, 116 >>, form |-> "none", neg |-> FALSE, body |-> << >>],   \* Unit
    [item |-> << 85, 115, 97, 103, 101 >>, form |-> "none", neg |-> FALSE, body |-> << >>],   \* Usage
    [item |-> << 85, 115, 97, 103, 101, 77, 105, 110, 105, 109, 117, 109 >>, form |-> "none", neg |-> FALSE, body |-> << >>],   \* UsageMinimum
    [item |-> << 85, 115, 97, 103, 101, 77, 97, 120, 105, 109, 117, 109 >>, form |-> "none", neg |-> FALSE, body |-> << >>],   \* UsageMaximum
    [item |-> << 68, 101, 108, 105, 109, 105, 116, 101, 114 >>, form |-> "none", neg |-> FALSE, body |-> << >>],   \* Delimiter
    [item |-> << 69, 110, 100, 67, 111, 108, 108, 101, 99, 116, 105, 111, 110 >>, form |-> "dec", neg |-> FALSE, body |-> << 49 >>],   \* EndCollection(1)
    [item |-> << 80, 117, 115, 104 >>, form |-> "dec", neg |-> FALSE, body |-> << 49 >>],   \* Push(1)
    [item |-> << 80, 111, 112 >>, form |-> "param", neg |-> FALSE, body |-> << 98 >>],   \* Pop({b})
    [item |-> << 82, 101, 112, 111, 114, 116, 83, 105, 122, 101 >>, form |-> "dec", neg |-> FALSE, body |-> << 49 >>],   \* ReportSize(1)
    [item |-> << 82, 101, 112, 111, 114, 116, 67, 111, 117, 110, 116 >>, form |-> "dec", neg |-> FALSE, body |-> << 49 >>]    \* ReportCount(1)
>>

\* an item with a decimal literal as its argument: unsigned, signed and
\* UnitExponent, Unit, Input and Usage, with the values of the provider's
\* parameters and 7, -8, 65535; same names the parameter that has the value of
\* the literal, if there is one
ParamChunks ==
    LET items == <<
                     << 82, 101, 112, 111, 114, 116, 83, 105, 122, 101 >>,
                     << 76, 111, 103, 105, 99, 97, 108, 77, 105, 110, 105, 109, 117, 109 >>,
                     << 85, 110, 105, 116, 69, 120, 112, 111, 110, 101, 110, 116 >>,
                     << 85, 110, 105, 116 >>,
                     << 73, 110, 112, 117, 116 >>,
                     << 85, 115, 97, 103, 101 >>
                 >>
        lits  == <<
                     [neg |-> FALSE, body |-> << 48 >>, same |-> << 97 >>],   \* 0 = {a}
                     [neg |-> FALSE, body |-> << 50, 53, 54 >>, same |-> << 98 >>],   \* 256 = {b}
                     [neg |-> TRUE, body |-> << 49 >>, same |-> << 99 >>],   \* -1 = {c}
                     [neg |-> FALSE, body |-> << 52, 50, 57, 52, 57, 54, 55, 50, 57, 53 >>, same |-> << 100 >>],   \* 4294967295 = {d}
                     [neg |-> FALSE, body |-> << 52, 50, 57, 52, 57, 54, 55, 50, 57, 54 >>, same |-> << 101 >>],   \* 4294967296 = {e}
                     [neg |-> TRUE, body |-> << 50, 49, 52, 55, 52, 56, 51, 54, 52, 56 >>, same |-> << 102 >>],   \* -2147483648 = {f}
                     [neg |-> TRUE, body |-> << 50, 49, 52, 55, 52, 56, 51, 54, 52, 57 >>, same |-> << 103 >>],   \* -2147483649 = {g}
                     [neg |-> FALSE, body |-> << 50, 49, 52, 55, 52, 56, 51, 54, 52, 55 >>, same |-> << 104 >>],   \* 2147483647 = {h}
                     [neg |-> FALSE, body |-> << 50, 49, 52, 55, 52, 56, 51, 54, 52, 56 >>, same |-> << 105 >>],   \* 2147483648 = {i}
                     [neg |-> FALSE, body |-> << 55 >>, same |-> << >>],   \* 7
                     [neg |-> TRUE, body |-> << 56 >>, same |-> << >>],   \* -8
                     [neg |-> FALSE, body |-> << 54, 53, 53, 51, 53 >>, same |-> << >>]    \* 65535
                 >>
        L     == Len(lits)
    IN  [i \in 1..(Len(items) * L) |->
            [item |-> items[((i - 1) \div L) + 1], form |-> "dec",
             neg |-> lits[((i - 1) % L) + 1].neg, body |-> lits[((i - 1) % L) + 1].body,
             same |-> lits[((i - 1) % L) + 1].same]]

\* sources that end anywhere: every beginning, the whole included, of each
\* of the texts of EndLines
EndChunks ==
    LET EndLines == <<
            << 85, 110, 105, 116, 40, 83, 105, 76, 105, 110, 40, 76, 101, 110, 103, 116, 104, 94, 50, 41, 41 >>,   \* Unit(SiLin(Length^2))
            << 85, 115, 97, 103, 101, 40, 123, 98, 125, 41 >>,   \* Usage({b})
            << 73, 110, 112, 117, 116, 40, 67, 110, 115, 116, 44, 86, 97, 114, 41 >>,   \* Input(Cnst,Var)
            << 48, 120, 49, 70 >>,   \* 0x1F
            << 49, 50 >>,   \* 12
            << 123, 98, 125 >>,   \* {b}
            << 80, 117, 115, 104 >>,   \* Push
            << 76, 111, 103, 105, 99, 97, 108, 77, 105, 110, 105, 109, 117, 109, 40, 45, 49, 41 >>,   \* LogicalMinimum(-1)
            << 85, 115, 97, 103, 101, 40, 49, 41, 10, 67, 111, 108, 108, 101, 99, 116, 105, 111, 110, 40, 49, 41, 10, 69, 110, 100, 67, 111, 108, 108, 101, 99, 116, 105, 111, 110 >>,   \* Usage(1)\nCollection(1)\nEndCollection
            << 80, 117, 115, 104, 32, 35, 99 >>,   \* Push #c
            << 52, 50, 57, 52, 57, 54, 55, 50, 57, 54 >>,   \* 4294967296
            << 68, 101, 108, 105, 109, 105, 116, 101, 114, 40, 79, 112, 101, 110, 41, 10, 85, 115, 97, 103, 101, 40, 49, 41, 10, 68, 101, 108, 105, 109, 105, 116, 101, 114, 40, 67, 108, 111, 115, 101, 41 >>,   \* Delimiter(Open)\nUsage(1)\nDelimiter(Close)
        << 76, 111, 103, 105, 99, 97, 108, 77, 105, 110, 105, 109, 117, 109, 40, 45, 41 >>,   \* LogicalMinimum(-)
        << 85, 110, 105, 116, 69, 120, 112, 111, 110, 101, 110, 116, 40, 45, 32, 41 >>    \* UnitExponent(- )
            >>
        upTo[j \in 0..Len(EndLines)] == IF j = 0 THEN 0 ELSE upTo[j - 1] + Len(EndLines[j])
        lineOf(i) == CHOOSE j \in 1..Len(EndLines) : upTo[j - 1] < i /\ i <= upTo[j]
    IN  [i \in 1..upTo[Len(EndLines)] |->
            [item |-> << >>, form |-> "raw", neg |-> FALSE,
             body |-> SubSeq(EndLines[lineOf(i)], 1, i - upTo[lineOf(i) - 1])]]

\* items with the kinds of argument there are: names, a unit system with and
\* without units, a list with a comma, literals, a parameter; an item without
\* argument and a top-level literal
SpaceChunks == <<
    [item |-> << 85, 110, 105, 116 >>, form |-> "name", neg |-> FALSE, body |-> << 83, 105, 76, 105, 110 >>],   \* Unit(SiLin)
    [item |-> << 85, 110, 105, 116 >>, form |-> "name", neg |-> FALSE, body |-> << 83, 105, 76, 105, 110, 40, 76, 101, 110, 103, 116, 104, 41 >>],   \* Unit(SiLin(Length))
    [item |-> << 85, 115, 97, 103, 101, 80, 97, 103, 101 >>, form |-> "name", neg |-> FALSE, body |-> << 66, 117, 116, 116, 111, 110 >>],   \* UsagePage(Button)
    [item |-> << 85, 115, 97, 103, 101 >>, form |-> "name", neg |-> FALSE, body |-> << 66, 117, 116, 116, 111, 110, 51 >>],   \* Usage(Button3)
    [item |-> << 73, 110, 112, 117, 116 >>, form |-> "name", neg |-> FALSE, body |-> << 67, 110, 115, 116, 44, 86, 97, 114 >>],   \* Input(Cnst,Var)
    [item |-> << 82, 101, 112, 111, 114, 116, 83, 105, 122, 101 >>, form |-> "hex", neg |-> FALSE, body |-> << 49, 102 >>],   \* ReportSize(0x1f)
    [item |-> << 85, 115, 97, 103, 101 >>, form |-> "param", neg |-> FALSE, body |-> << 98 >>],   \* Usage({b})
    [item |-> << 76, 111, 103, 105, 99, 97, 108, 77, 105, 110, 105, 109, 117, 109 >>, form |-> "dec", neg |-> TRUE, body |-> << 49 >>],   \* LogicalMinimum(-1)
    [item |-> << 80, 117, 115, 104 >>, form |-> "none", neg |-> FALSE, body |-> << >>],   \* Push
    [item |-> << >>, form |-> "dec", neg |-> FALSE, body |-> << 55 >>]    \* 7
>>

\* the most chunks a source of each vocabulary has
MaxItems == 5
MaxUsageItems == 3
MaxLiterals == 1
MaxLexItems == 3
MaxSinkItems == 2
MaxCaseItems == 2
MaxSpaceItems == 1
MaxCommentItems == 2
MaxCommaItems == 3
MaxFlagItems == 1
MaxUnitItems == 1
MaxArgItems == 2
MaxBareItems == 3
MaxEndItems == 1
MaxParamItems == 2

Vocabulary == CASE vocab = "items" -> ItemChunks
                [] vocab = "usages" -> UsageChunks
                [] vocab = "lex" -> LexChunks
                [] vocab = "sinks" -> UsageChunks
                [] vocab = "cases" -> CaseChunks
                [] vocab = "spaces" -> SpaceChunks
                [] vocab = "comments" -> CommentChunks
                [] vocab = "commas" -> CommaChunks
                [] vocab = "flags" -> FlagChunks
                [] vocab = "units" -> UnitChunks
                [] vocab = "args" -> ArgChunks
                [] vocab = "bare" -> BareChunks
                [] vocab = "ends" -> EndChunks
                [] vocab = "params" -> ParamChunks
                [] OTHER -> LiteralChunks

MaxChunks == CASE vocab = "items" -> MaxItems
               [] vocab = "usages" -> MaxUsageItems
               [] vocab = "lex" -> MaxLexItems
               [] vocab = "sinks" -> MaxSinkItems
               [] vocab = "cases" -> MaxCaseItems
               [] vocab = "spaces" -> MaxSpaceItems
               [] vocab = "comments" -> MaxCommentItems
               [] vocab = "commas" -> MaxCommaItems
               [] vocab = "flags" -> MaxFlagItems
               [] vocab = "units" -> MaxUnitItems
               [] vocab = "args" -> MaxArgItems
               [] vocab = "bare" -> MaxBareItems
               [] vocab = "ends" -> MaxEndItems
               [] vocab = "params" -> MaxParamItems
               [] OTHER -> MaxLiterals

\* compile can take its next step without reading past what is revealed:
\* the branches look at ptr[1] and ptr[2] and skip whitespace up to the next token
LookaheadOK ==
    Len(source) >= n + 3 /\ {k \in (n + 2)..Len(source) : ~isWhitespace(source[k])} # {}

(***************************************************************************)
(* Actions                                                                 *)
(***************************************************************************)
\* no call of compile came before
NoRun == [ran |-> FALSE]

\* the locals of compile before the loop, for a source that is not revealed yet
InitRun ==
    /\ source = << >> /\ sourceEnded = FALSE /\ prog = << >>
    /\ colLevel = 0 /\ delimLevel = 0 /\ usageAtLevel = -1
    /\ reportSizes = 0 /\ reportCounts = 0 /\ n = 0
    /\ tItem = [start |-> 0, length |-> 0] /\ tArg = [start |-> 0, length |-> 0]
    /\ hasUsagePage = FALSE /\ hasArg = FALSE /\ multiArg = FALSE /\ negLit = FALSE
    /\ encMap = NullEnc /\ usagePage = NullEnc /\ encUnit = NullEnc
    /\ flags = {} /\ item = U32(0) /\ arg = U32(0) /\ lit = U32(0)
    /\ out = << >> /\ error = Info /\ pc = "loop" /\ ret = FALSE /\ val = U32(0)
    /\ prev = NoRun

InitCompile == InitRun /\ writer = SizeEstimator

Init == InitCompile /\ vocab = "items"

InitUsage == InitCompile /\ vocab = "usages"

InitLit == InitCompile /\ vocab = "literals"

InitLex == InitCompile /\ vocab = "lex"

\* a buffer that holds all an item of UsageChunks writes, three bytes at most
SinkCapacity == 3 * MaxSinkItems

\* the sinks a caller can hand to compile
Writers == {BufferWriter(s) : s \in 0..SinkCapacity} \cup {SizeEstimator, NullWriter}

InitSink == InitRun /\ writer = BufferWriter(SinkCapacity) /\ vocab = "sinks"

InitCase == InitCompile /\ vocab = "cases"

InitSpace == InitCompile /\ vocab = "spaces"

InitComment == InitCompile /\ vocab = "comments"

InitComma == InitCompile /\ vocab = "commas"

InitFlag == InitCompile /\ vocab = "flags"

InitUnit == InitCompile /\ vocab = "units"

InitArg == InitCompile /\ vocab = "args"

InitBare == InitCompile /\ vocab = "bare"

InitEnd == InitCompile /\ vocab = "ends"

InitParam == InitCompile /\ vocab = "params"

\* the locals of compile after an iteration or after the end of source; the
\* sink has received the bytes the iteration wrote
Assign(r) ==
    /\ writer' = writeAll(writer, SubSeq(r.out, Len(out) + 1, Len(r.out)))
    /\ colLevel' = r.colLevel /\ delimLevel' = r.delimLevel
    /\ usageAtLevel' = r.usageAtLevel
    /\ reportSizes' = r.reportSizes /\ reportCounts' = r.reportCounts
    /\ n' = r.n /\ tItem' = r.tItem /\ tArg' = r.tArg
    /\ hasUsagePage' = r.hasUsagePage /\ hasArg' = r.hasArg
    /\ multiArg' = r.multiArg /\ negLit' = r.negLit
    /\ encMap' = r.encMap /\ usagePage' = r.usagePage /\ encUnit' = r.encUnit
    /\ flags' = r.flags /\ item' = r.item /\ arg' = r.arg /\ lit' = r.lit
    /\ out' = r.out /\ error' = r.error /\ pc' = r.pc /\ ret' = r.ret

\* execution stops in a signed overflow: nothing is written, nothing returned
Trap ==
    /\ pc' = "trap"
    /\ UNCHANGED << colLevel, delimLevel, usageAtLevel, reportSizes, reportCounts, n,
                    tItem, tArg, hasUsagePage, hasArg, multiArg, negLit, encMap,
                    usagePage, encUnit, flags, item, arg, lit, out, error, ret, writer >>

\* what builds do with an iteration: the defined result, or for one that
\* executes a signed overflow the wrapped result or a trap
Outcomes(r) == IF r.ub THEN {"wrap", "trap"} ELSE {"defined"}

\* the caller's source has one more chunk
Feed ==
    /\ pc = "loop" /\ ~sourceEnded /\ ~LookaheadOK /\ Len(prog) < MaxChunks
    /\ \E i \in 1..Len(Vocabulary) :
          /\ prog' = Append(prog, Vocabulary[i])
          /\ source' = source \o (IF source = << >> THEN << >> ELSE << 10 >>)
                              \o Text(Vocabulary[i])
    /\ UNCHANGED << sourceEnded, colLevel, delimLevel, usageAtLevel, reportSizes,
                    reportCounts, n, tItem, tArg, hasUsagePage, hasArg, multiArg,
                    negLit, encMap, usagePage, encUnit, flags, item, arg, lit, out,
                    error, pc, ret, val, vocab, writer, prev >>

\* the caller's source ends here
EndSource ==
    /\ pc = "loop" /\ ~sourceEnded /\ ~LookaheadOK
    /\ sourceEnded' = TRUE
    /\ UNCHANGED << source, colLevel, delimLevel, usageAtLevel, reportSizes,
                    reportCounts, n, tItem, tArg, hasUsagePage, hasArg, multiArg,
                    negLit, encMap, usagePage, encUnit, flags, item, arg, lit, out,
                    error, pc, ret, val, prog, vocab, writer, prev >>

\* one iteration of the loop of compile
Step ==
    /\ pc = "loop" /\ n < Len(source) /\ source[n + 1] # 0
    /\ IF sourceEnded THEN TRUE ELSE LookaheadOK
    /\ \E r \in {LoopBody(Cur)} :
          \E o \in Outcomes(r) : IF o = "trap" THEN Trap ELSE Assign(r)
    /\ UNCHANGED << source, sourceEnded, val, prog, vocab, prev >>

\* the loop ends, at the end of the source or at a NUL, and compile returns
Finish ==
    /\ pc = "loop"
    /\ IF n < Len(source) THEN source[n + 1] = 0 ELSE sourceEnded
    /\ \E r \in {EndOfSource(Cur)} : Assign(r)
    /\ UNCHANGED << source, sourceEnded, val, prog, vocab, prev >>

\* a letter in the other case
flipCase(b) == IF b >= 97 THEN b - 32 ELSE b + 32

\* source[i] lies between a '{' and the '}' that closes it: in a parameter name
inBraces(i) ==
    \E j \in 1..(i - 1) : source[j] = 123 /\ \A k \in (j + 1)..(i - 1) : source[k] # 125

\* the letters of the source but the x of a hex prefix
letterPositions ==
    {i \in 1..Len(source) :
        /\ isAlpha(source[i])
        /\ ~(source[i] = 120 /\ i > 1 /\ source[i - 1] = 48
                /\ (i = 2 \/ ~isArgChar(source[i - 2])))}

\* space, tab, LF, VT, FF, CR
Whitespaces == {32, 9, 10, 11, 12, 13}

\* the places between two tokens one of which is '(', ',' or ')': i stands
\* for the place between source[i] and source[i + 1]
tokenBoundaries ==
    {i \in 1..(Len(source) - 1) : source[i] \in {40, 41, 44} \/ source[i + 1] \in {40, 41, 44}}

\* the source with the bytes w put in after its first i bytes
insertAt(i, w) == SubSeq(source, 1, i) \o w \o SubSeq(source, i + 1, Len(source))

\* the locals of compile when the loop is entered
Entry ==
    [colLevel |-> 0, delimLevel |-> 0, usageAtLevel |-> -1, reportSizes |-> 0,
     reportCounts |-> 0, n |-> 0, tItem |-> [start |-> 0, length |-> 0],
     tArg |-> [start |-> 0, length |-> 0], hasUsagePage |-> FALSE, hasArg |-> FALSE,
     multiArg |-> FALSE, negLit |-> FALSE, encMap |-> NullEnc, usagePage |-> NullEnc,
     encUnit |-> NullEnc, flags |-> {}, item |-> U32(0), arg |-> U32(0), lit |-> U32(0),
     out |-> << >>, error |-> Info, pc |-> "loop", ret |-> FALSE, cont |-> FALSE,
     ub |-> FALSE]

\* the iterations of the loop run on from c: the place of the byte each reads
\* and the flags it reads it with
RECURSIVE readFrom(_)
readFrom(c) ==
    IF c.pc # "loop" \/ c.n >= Len(source) \/ source[c.n + 1] = 0 THEN {}
    ELSE {<< c.n + 1, c.flags >>}
            \cup UNION {readFrom(d) : d \in {[LoopBody(c) EXCEPT !.cont = FALSE, !.ub = FALSE]}}

\* the bytes of the source that are the content of a comment: of the bytes
\* read r, those read in the comment state but the CR or LF that ends it
commentBytes(r) ==
    {x[1] : x \in {y \in r : y[2] = {"COMMENT"} /\ source[y[1]] \notin {13, 10}}}

\* the '#' and ';' of the source that start a comment
commentStarts(r) == {x[1] : x \in {y \in r : y[2] = {} /\ isComment(source[y[1]])}}

\* the source without its byte i
removeAt(i) == SubSeq(source, 1, i - 1) \o SubSeq(source, i + 1, Len(source))

\* bytes to put into a comment: a letter, '#', '-', '(', '{', a byte of a
\* multi-byte character
Replacements == {65, 35, 45, 40, 123, 169}

\* the source with the content of a comment changed: a byte replaced, a
\* byte removed, a byte put in
commentEdits(r) ==
    {[kind |-> "comment", source |-> [source EXCEPT ![i] = b], writer |-> SizeEstimator,
      pos |-> i] : i \in commentBytes(r), b \in Replacements}
    \cup {[kind |-> "comment", source |-> removeAt(i), writer |-> SizeEstimator,
           pos |-> i] : i \in commentBytes(r)}
    \cup {[kind |-> "comment", source |-> insertAt(i, << b >>), writer |-> SizeEstimator,
           pos |-> i] : i \in commentStarts(r) \cup commentBytes(r), b \in Replacements}

\* what the caller's next call of compile differs in from the call that has
\* returned: the source, the sink; a call of kind "again" is given the
\* diagnostic record of the call that has returned, as it is, and that source
\* or a beginning of it; a call of kind "param" is given the source with the
\* literal of its last item replaced by the parameter of the same value; a
\* call of kind "nul" is given that source with a
\* NUL byte and more bytes after it, the size counting them all
Edits ==
    CASE vocab = "sinks" -> {[kind |-> "sink", source |-> source, writer |-> w] : w \in Writers}
      [] vocab = "cases" ->
            {[kind |-> "case", source |-> [source EXCEPT ![i] = flipCase(source[i])],
              writer |-> SizeEstimator, pos |-> i, inParam |-> inBraces(i)] :
                 i \in letterPositions}
      [] vocab = "spaces" ->
            {[kind |-> "space", source |-> insertAt(i, << w >>), writer |-> SizeEstimator,
              pos |-> i] : i \in tokenBoundaries, w \in Whitespaces}
      [] vocab = "comments" -> UNION {commentEdits(r) : r \in {readFrom(Entry)}}
      [] vocab = "ends" ->
            {[kind |-> "append", source |-> source \o << w >>, writer |-> SizeEstimator] :
                 w \in Whitespaces}
            \cup {[kind |-> "again", source |-> SubSeq(source, 1, i), writer |-> SizeEstimator] :
                      i \in 0..Len(source)}
            \cup {[kind |-> "nul", source |-> source \o << 0 >> \o t, writer |-> SizeEstimator] :
                      t \in {<< >>, << 49 >>, << 41, 10 >>}}
      [] vocab = "params" ->
            {[kind |-> "param", writer |-> SizeEstimator,
              source |-> SubSeq(source, 1, Len(source) - Len(Text(ch)))
                             \o Text([ch EXCEPT !.form = "param", !.neg = FALSE,
                                                !.body = ch.same])] :
                 ch \in {c \in {prog[k] : k \in {Len(prog)} \ {0}} : c.same # << >>}}
      [] OTHER -> {}

\* compile has returned and the caller calls it once more
Rerun ==
    /\ pc = "done" /\ ~prev.ran
    /\ \E e \in Edits :
          /\ prev' = [ran |-> TRUE, ret |-> ret, error |-> error, out |-> out,
                      writer |-> writer, source |-> source, edit |-> e]
          /\ source' = e.source /\ writer' = e.writer
          /\ error' = IF e.kind = "again" THEN error ELSE Info
    /\ sourceEnded' = TRUE
    /\ colLevel' = 0 /\ delimLevel' = 0 /\ usageAtLevel' = -1
    /\ reportSizes' = 0 /\ reportCounts' = 0 /\ n' = 0
    /\ tItem' = [start |-> 0, length |-> 0] /\ tArg' = [start |-> 0, length |-> 0]
    /\ hasUsagePage' = FALSE /\ hasArg' = FALSE /\ multiArg' = FALSE /\ negLit' = FALSE
    /\ encMap' = NullEnc /\ usagePage' = NullEnc /\ encUnit' = NullEnc
    /\ flags' = {} /\ item' = U32(0) /\ arg' = U32(0) /\ lit' = U32(0)
    /\ out' = << >> /\ pc' = "loop" /\ ret' = FALSE
    /\ UNCHANGED << val, prog, vocab >>

Next == Feed \/ EndSource \/ Step \/ Finish

\* compile called twice
NextTwice == Feed \/ EndSource \/ Step \/ Finish \/ Rerun

Spec == Init /\ [][Next]_vars

SpecUsage == InitUsage /\ [][Next]_vars

SpecLit == InitLit /\ [][Next]_vars

SpecLex == InitLex /\ [][Next]_vars

SpecSink == InitSink /\ [][NextTwice]_vars

SpecCase == InitCase /\ [][NextTwice]_vars

SpecSpace == InitSpace /\ [][NextTwice]_vars

SpecComment == InitComment /\ [][NextTwice]_vars

SpecComma == InitComma /\ [][Next]_vars

SpecFlag == InitFlag /\ [][Next]_vars

SpecUnit == InitUnit /\ [][Next]_vars

SpecArg == InitArg /\ [][Next]_vars

SpecBare == InitBare /\ [][Next]_vars

SpecEnd == InitEnd /\ [][NextTwice]_vars

SpecParam == InitParam /\ [][NextTwice]_vars

\* compile, once called, runs on: no step that can be taken is put off for ever
SpecFair ==
    /\ (InitLex \/ InitCase)
    /\ [][Next]_vars
    /\ WF_vars(Next)

(***************************************************************************)
(* The integer codec on its own: one call of encodeSigned or               *)
(* encodeUnsigned on a value at or near a boundary of the encodings.       *)
(***************************************************************************)
\* how far from a boundary the values go
MaxDelta == 2

\* the boundaries: 0, 0x7F/0x80, 0xFF/0x100, 0x7FFF/0x8000, 0xFFFF/0x10000,
\* INT32_MAX/INT32_MIN, -1, -0x80/-0x81, -0x8000/-0x8001
Boundaries ==
    { << 0, 0 >>, << 0, 128 >>, << 0, 256 >>, << 0, 32768 >>, << 1, 0 >>,
      << 32768, 0 >>, << 65535, 65535 >>, << 65535, 65408 >>, << 65535, 32768 >> }

CodecValues ==
    { Add32(b, U32(d)) : b \in Boundaries, d \in 0..MaxDelta } \cup
    { Add32(b, Neg32(U32(d))) : b \in Boundaries, d \in 0..MaxDelta }

InitCodec ==
    /\ val \in CodecValues /\ pc = "start" /\ out = << >> /\ vocab = "codec"
    /\ source = << >> /\ sourceEnded = TRUE /\ prog = << >>
    /\ colLevel = 0 /\ delimLevel = 0 /\ usageAtLevel = -1
    /\ reportSizes = 0 /\ reportCounts = 0 /\ n = 0
    /\ tItem = [start |-> 0, length |-> 0] /\ tArg = [start |-> 0, length |-> 0]
    /\ hasUsagePage = FALSE /\ hasArg = FALSE /\ multiArg = FALSE /\ negLit = FALSE
    /\ encMap = NullEnc /\ usagePage = NullEnc /\ encUnit = NullEnc
    /\ flags = {} /\ item = U32(0) /\ arg = U32(0) /\ lit = U32(0)
    /\ error = Info /\ ret = FALSE
    /\ writer = SizeEstimator /\ prev = NoRun

\* encodeSigned(out, int32_t(val)); -val overflows for the least int32_t
EncodeSigned ==
    /\ pc = "start"
    /\ \E o \in (IF NegOverflows(val) THEN {"wrap", "trap"} ELSE {"defined"}) :
          IF o = "trap" THEN pc' = "trap" /\ out' = out /\ writer' = writer
          ELSE /\ pc' = "signed" /\ out' = encodeSigned(out, val)
               /\ writer' = writeAll(writer, encodeSigned(<< >>, val))
    /\ UNCHANGED << source, sourceEnded, colLevel, delimLevel, usageAtLevel,
                    reportSizes, reportCounts, n, tItem, tArg, hasUsagePage, hasArg,
                    multiArg, negLit, encMap, usagePage, encUnit, flags, item, arg,
                    lit, error, ret, val, prog, vocab, prev >>

\* encodeUnsigned(out, val)
EncodeUnsigned ==
    /\ pc = "start"
    /\ pc' = "unsigned" /\ out' = encodeUnsigned(out, val)
    /\ writer' = writeAll(writer, encodeUnsigned(<< >>, val))
    /\ UNCHANGED << source, sourceEnded, colLevel, delimLevel, usageAtLevel,
                    reportSizes, reportCounts, n, tItem, tArg, hasUsagePage, hasArg,
                    multiArg, negLit, encMap, usagePage, encUnit, flags, item, arg,
                    lit, error, ret, val, prog, vocab, prev >>

NextCodec == EncodeSigned \/ EncodeUnsigned

SpecCodec == InitCodec /\ [][NextCodec]_vars

(***************************************************************************)
(* Properties.  They relate prog, what the source says, to what compile    *)
(* did with it: how far it read (n), what it wrote (out) and what it       *)
(* returned (ret, error).                                                  *)
(***************************************************************************)
\* item names as bytes
UsageName == << 85, 115, 97, 103, 101 >>
UsageMinimumName == << 85, 115, 97, 103, 101, 77, 105, 110, 105, 109, 117, 109 >>
UsageMaximumName == << 85, 115, 97, 103, 101, 77, 97, 120, 105, 109, 117, 109 >>
UsagePageName == << 85, 115, 97, 103, 101, 80, 97, 103, 101 >>
CollectionName == << 67, 111, 108, 108, 101, 99, 116, 105, 111, 110 >>
EndCollectionName == << 69, 110, 100, 67, 111, 108, 108, 101, 99, 116, 105, 111, 110 >>
DelimiterName == << 68, 101, 108, 105, 109, 105, 116, 101, 114 >>
ReportSizeName == << 82, 101, 112, 111, 114, 116, 83, 105, 122, 101 >>
ReportCountName == << 82, 101, 112, 111, 114, 116, 67, 111, 117, 110, 116 >>
LogicalMinimumName == << 76, 111, 103, 105, 99, 97, 108, 77, 105, 110, 105, 109, 117, 109 >>
LogicalMaximumName == << 76, 111, 103, 105, 99, 97, 108, 77, 97, 120, 105, 109, 117, 109 >>
PhysicalMinimumName == << 80, 104, 121, 115, 105, 99, 97, 108, 77, 105, 110, 105, 109, 117, 109 >>
PhysicalMaximumName == << 80, 104, 121, 115, 105, 99, 97, 108, 77, 97, 120, 105, 109, 117, 109 >>

\* the index into source of the first character of chunk k
RECURSIVE StartOf(_)
StartOf(k) == IF k <= 1 THEN 0 ELSE StartOf(k - 1) + Len(Text(prog[k - 1])) + 1

\* the index into source just past chunk k
EndOf(k) == StartOf(k) + Len(Text(prog[k]))

Failed == pc = "done" /\ ~ret

\* the errors of the end of the source, which are about no chunk
EndErrors == {"E_Missing_EndCollection", "E_Missing_DelimiterClose"}

\* compile failed in chunk k
Rejected(k) ==
    Failed /\ error.message \notin EndErrors /\ StartOf(k) <= n /\ n <= EndOf(k)

\* compile read on past chunk k, or ended the source after it, without an error in it
Accepted(k) ==
    \/ n > EndOf(k)
    \/ pc = "done" /\ n = EndOf(k) /\ (ret \/ error.message \in EndErrors)

\* compile has just read the last character of chunk k
JustClosed(k) == pc = "loop" /\ n = EndOf(k)

\* the last len elements of a sequence
LastOf(seq, len) == SubSeq(seq, Len(seq) - len + 1, Len(seq))

\* the greatest element of a nonempty set of numbers
Greatest(S) == CHOOSE x \in S : \A y \in S : y <= x

\* the value of the item of this name in itemMap
ItemValue(name) == itemMap[CHOOSE i \in 1..Len(itemMap) : itemMap[i].name = name].value

\* the collection depth and the delimiter depth the first k chunks leave
ColDepth(k) ==
    Cardinality({j \in 1..k : prog[j].item = CollectionName})
        - Cardinality({j \in 1..k : prog[j].item = EndCollectionName})

IsOpen(ch) == ch.item = DelimiterName /\ ch.body = << 79, 112, 101, 110 >>

IsClose(ch) ==
    ch.item = DelimiterName /\ (ch.body = << 67, 108, 111, 115, 101 >> \/ ch.body = << 48 >>)

DelimDepth(k) ==
    Cardinality({j \in 1..k : IsOpen(prog[j])}) - Cardinality({j \in 1..k : IsClose(prog[j])})

\* every chunk of the source was accepted
AllAccepted == Len(prog) = 0 \/ Accepted(Len(prog))

(***************************************************************************)
(* Numbers as the source writes them.                                      *)
(***************************************************************************)
RECURSIVE StripZeros(_)
StripZeros(d) == IF Len(d) > 1 /\ d[1] = 48 THEN StripZeros(Tail(d)) ELSE d

\* the value of a decimal or hex digit
DigitValue(ch) == IF ch <= 57 THEN ch - 48 ELSE IF ch <= 70 THEN ch - 55 ELSE ch - 87

\* the number with the digits a is greater than the number with the digits b
\* (both in the same base)
Greater(a, b) ==
    LET x == StripZeros(a)
        y == StripZeros(b)
    IN  \/ Len(x) > Len(y)
        \/ /\ Len(x) = Len(y)
           /\ \E i \in 1..Len(x) :
                 /\ DigitValue(x[i]) > DigitValue(y[i])
                 /\ \A j \in 1..(i - 1) : DigitValue(x[j]) = DigitValue(y[j])

\* the number with these digits, modulo 2^32
RECURSIVE ValueOf(_, _, _)
ValueOf(d, base, acc) ==
    IF d = << >> THEN acc ELSE ValueOf(Tail(d), base, MulAdd32(acc, base, DigitValue(d[1])))

\* the value an argument or literal stands for, modulo 2^32
Value32(ch) ==
    CASE ch.form = "dec"   -> IF ch.neg THEN Neg32(ValueOf(ch.body, 10, U32(0)))
                              ELSE ValueOf(ch.body, 10, U32(0))
      [] ch.form = "hex"   -> ValueOf(ch.body, 16, U32(0))
      [] ch.form = "param" -> find(ch.body).value[2]
      [] OTHER             -> U32(0)

\* the value lies in [0, 0xFFFFFFFF]
FitsUnsigned(ch) ==
    CASE ch.form = "dec"   -> ~ch.neg /\ ~Greater(ch.body, << 52, 50, 57, 52, 57, 54, 55, 50, 57, 53 >>)
      [] ch.form = "hex"   -> ~Greater(ch.body, << 70, 70, 70, 70, 70, 70, 70, 70 >>)
      [] ch.form = "param" -> find(ch.body).value[1] = 0
      [] OTHER             -> TRUE

\* the value lies in [-0x80000000, 0x7FFFFFFF]
FitsSigned(ch) ==
    CASE ch.form = "dec"   -> IF ch.neg
                              THEN ~Greater(ch.body, << 50, 49, 52, 55, 52, 56, 51, 54, 52, 56 >>)
                              ELSE ~Greater(ch.body, << 50, 49, 52, 55, 52, 56, 51, 54, 52, 55 >>)
      [] ch.form = "hex"   -> ~Greater(ch.body, << 55, 70, 70, 70, 70, 70, 70, 70 >>)
      [] ch.form = "param" -> \/ find(ch.body).value[1] = 0 /\ ~IsNeg32(find(ch.body).value[2])
                              \/ find(ch.body).value[1] = -1 /\ IsNeg32(find(ch.body).value[2])
      [] OTHER             -> TRUE

SignedItems == {LogicalMinimumName, LogicalMaximumName, PhysicalMinimumName, PhysicalMaximumName}

\* the least of 1, 2 and 4 bytes that hold v as an unsigned number
MinUnsigned(v) == IF v[1] > 0 THEN 4 ELSE IF v[2] > 255 THEN 2 ELSE 1

\* the least of 1, 2 and 4 bytes that hold v as a two's complement number
MinSigned(v) ==
    IF (v[1] = 0 /\ v[2] <= 127) \/ (v[1] = 65535 /\ v[2] >= 65408) THEN 1
    ELSE IF (v[1] = 0 /\ v[2] <= 32767) \/ (v[1] = 65535 /\ v[2] >= 32768) THEN 2
    ELSE 4

\* the size code of a prefix byte for a payload of len bytes
SizeCode(len) == IF len = 4 THEN 3 ELSE len

\* the first len bytes of v, least significant first
LittleEndian(v, len) ==
    SubSeq(<< v[2] % 256, v[2] \div 256, v[1] % 256, v[1] \div 256 >>, 1, len)

\* bytes read as a little-endian two's complement number of their length
\* (1, 2 or 4), sign-extended to 32 bits
DecodeSigned(b) ==
    IF Len(b) = 1 THEN (IF b[1] >= 128 THEN << 65535, 65280 + b[1] >> ELSE << 0, b[1] >>)
    ELSE IF Len(b) = 2
    THEN (IF b[2] >= 128 THEN << 65535, b[1] + 256 * b[2] >> ELSE << 0, b[1] + 256 * b[2] >>)
    ELSE << b[3] + 256 * b[4], b[1] + 256 * b[2] >>

\* compile has read the closing parenthesis of chunk k, or stopped in reading it
Closed(k) == n >= EndOf(k) \/ (pc = "trap" /\ n >= StartOf(k))

(***************************************************************************)
(* C1.  An item closed with an argument list writes one prefix byte, the   *)
(* item's table value plus the size code, and then the argument value in   *)
(* the least of 1, 2 and 4 bytes that hold it, little-endian: two's        *)
(* complement for the Logical/Physical Minimum/Maximum, unsigned else.     *)
(***************************************************************************)
C1_ItemBytes ==
    \A k \in 1..Len(prog) :
        (prog[k].item # << >> /\ prog[k].form \in {"dec", "hex", "param"} /\ Closed(k)) =>
            LET v   == Value32(prog[k])
                len == IF prog[k].item \in SignedItems THEN MinSigned(v) ELSE MinUnsigned(v)
            IN  /\ IF prog[k].item \in SignedItems THEN FitsSigned(prog[k])
                   ELSE FitsUnsigned(prog[k])
                /\ Len(out) >= 1 + len
                /\ LastOf(out, 1 + len) =
                       << ItemValue(prog[k].item) + SizeCode(len) >> \o LittleEndian(v, len)

(***************************************************************************)
(* C2.  encodeSigned round-trips: for every int32_t v the bytes it writes, *)
(* read back as a little-endian two's complement number of their length    *)
(* and sign-extended, are v, and their number is encodedSize(v).           *)
(***************************************************************************)
C2_SignedRoundTrip ==
    (vocab = "codec" /\ pc \in {"signed", "trap"}) =>
        /\ pc = "signed"
        /\ Len(out) = encodedSizeSigned(val)
        /\ DecodeSigned(out) = val

(***************************************************************************)
(* C3.  A decimal literal whose value exceeds 0xFFFFFFFF, at top level or  *)
(* in an argument list, makes compile fail with Number_overflow; it is     *)
(* never accepted.                                                         *)
(***************************************************************************)
C3_DecimalOverflow ==
    \A k \in 1..Len(prog) :
        (/\ prog[k].form = "dec" /\ ~prog[k].neg
         /\ Greater(prog[k].body, << 52, 50, 57, 52, 57, 54, 55, 50, 57, 53 >>)) =>
            /\ ~Accepted(k)
            /\ Rejected(k) => error.message = "E_Number_overflow"

(***************************************************************************)
(* C4.  A hex literal whose value exceeds 0xFFFFFFFF, at top level or in   *)
(* an argument list, makes compile fail with Number_overflow; it is never  *)
(* accepted.                                                               *)
(***************************************************************************)
C4_HexOverflow ==
    \A k \in 1..Len(prog) :
        (/\ prog[k].form = "hex"
         /\ Greater(prog[k].body, << 70, 70, 70, 70, 70, 70, 70, 70 >>)) =>
            /\ ~Accepted(k)
            /\ Rejected(k) => error.message = "E_Number_overflow"

(***************************************************************************)
(* C5.  A signed item accepts an argument only if its value lies in        *)
(* [-2^31, 2^31 - 1]: a literal outside fails with Number_overflow, a      *)
(* parameter outside with Parameter_value_out_of_range, and the payload of *)
(* an accepted item decodes, two's complement, to the value written.       *)
(***************************************************************************)
C5_SignedRange ==
    \A k \in 1..Len(prog) :
        (prog[k].item \in SignedItems) =>
            /\ ~FitsSigned(prog[k]) =>
                  /\ ~Accepted(k)
                  /\ Rejected(k) =>
                        error.message = IF prog[k].form = "param"
                                        THEN "E_Parameter_value_out_of_range"
                                        ELSE "E_Number_overflow"
            /\ JustClosed(k) =>
                  /\ FitsSigned(prog[k])
                  /\ \E len \in {1, 2, 4} :
                        /\ Len(out) >= 1 + len
                        /\ out[Len(out) - len] = ItemValue(prog[k].item) + SizeCode(len)
                        /\ DecodeSigned(LastOf(out, len)) = Value32(prog[k])

(***************************************************************************)
(* C6.  The collection depth and the delimiter depth are never negative:   *)
(* an EndCollection at depth 0 fails with Unexpected_EndCollection, a      *)
(* Delimiter(Close) or Delimiter(0) at depth 0 with                        *)
(* Unexpected_DelimiterClose; compile returns success only with both       *)
(* depths zero at the end of the source, and fails with                    *)
(* Missing_EndCollection, respectively Missing_DelimiterClose, otherwise.  *)
(***************************************************************************)
C6_DepthsBalanced ==
    /\ colLevel >= 0 /\ delimLevel >= 0
    /\ \A k \in 1..Len(prog) :
          /\ (prog[k].item = EndCollectionName /\ ColDepth(k - 1) = 0) =>
                /\ ~Accepted(k)
                /\ Rejected(k) => error.message = "E_Unexpected_EndCollection"
          /\ (IsClose(prog[k]) /\ DelimDepth(k - 1) = 0) =>
                /\ ~Accepted(k)
                /\ Rejected(k) => error.message = "E_Unexpected_DelimiterClose"
    /\ ret => (ColDepth(Len(prog)) = 0 /\ DelimDepth(Len(prog)) = 0)
    /\ (pc = "done" /\ AllAccepted) =>
          /\ ColDepth(Len(prog)) > 0 => error.message = "E_Missing_EndCollection"
          /\ (ColDepth(Len(prog)) = 0 /\ DelimDepth(Len(prog)) > 0) =>
                error.message = "E_Missing_DelimiterClose"

\* an EndCollection that follows a closed collection was met at depth 0 and
\* rejected
C6_Witness ==
    /\ Failed /\ Len(prog) = 4
    /\ prog[1].item = UsageName /\ prog[2].item = CollectionName
    /\ prog[3].item = EndCollectionName /\ prog[4].item = EndCollectionName
    /\ Rejected(4) /\ error.message = "E_Unexpected_EndCollection"

\* the Collection chunk that the EndCollection chunk k closes
Match(k) ==
    Greatest({j \in 1..(k - 1) :
                 prog[j].item = CollectionName /\ ColDepth(j - 1) = ColDepth(k)})

\* the number of chunks of this item between Match(k) and k
Between(k, name) == Cardinality({m \in (Match(k) + 1)..(k - 1) : prog[m].item = name})

(***************************************************************************)
(* C7.  Within any Collection the ReportSize items and the ReportCount     *)
(* items are equal in number when EndCollection closes it: an accepted     *)
(* EndCollection has equally many of both between its Collection and       *)
(* itself, and one with unequal numbers is rejected with                   *)
(* Missing_ReportSize or Missing_ReportCount.                              *)
(***************************************************************************)
C7_ReportPairsPerCollection ==
    \A k \in 1..Len(prog) :
        (prog[k].item = EndCollectionName /\ ColDepth(k - 1) > 0) =>
            /\ Accepted(k) => Between(k, ReportSizeName) = Between(k, ReportCountName)
            /\ Between(k, ReportSizeName) # Between(k, ReportCountName) =>
                  /\ ~Accepted(k)
                  /\ Rejected(k) =>
                        error.message \in {"E_Missing_ReportSize", "E_Missing_ReportCount"}

\* the last Collection chunk before chunk k, 0 when there is none
PrevCollection(k) == Greatest({0} \cup {j \in 1..(k - 1) : prog[j].item = CollectionName})

\* a Usage chunk lies between the previous Collection chunk and chunk k
UsageSince(k) == \E m \in (PrevCollection(k) + 1)..(k - 1) : prog[m].item = UsageName

(***************************************************************************)
(* C8.  A Collection is accepted only if a Usage item (Usage itself, not   *)
(* UsageMinimum, UsageMaximum or UsagePage) occurs after the previous      *)
(* Collection item, or after the start of the source when there is none;   *)
(* otherwise compile fails with Missing_Usage_for_Collection, at the end   *)
(* of the item name, before it looks at the argument.                      *)
(***************************************************************************)
C8_UsageForCollection ==
    \A k \in 1..Len(prog) :
        (prog[k].item = CollectionName) =>
            /\ Accepted(k) => UsageSince(k)
            /\ ~UsageSince(k) =>
                  /\ n <= StartOf(k) + Len(CollectionName)
                  /\ (Failed /\ n >= StartOf(k)) =>
                        /\ error.message = "E_Missing_Usage_for_Collection"
                        /\ error.character = StartOf(k) + Len(CollectionName)

\* a second Collection without a Usage of its own was rejected, its
\* argument, valid or not, unread
C8_Witness ==
    /\ Len(prog) >= 3
    /\ \E k \in 3..Len(prog) :
          /\ prog[k].item = CollectionName /\ ~UsageSince(k)
          /\ PrevCollection(k) > 0 /\ Accepted(PrevCollection(k))
          /\ Rejected(k) /\ error.message = "E_Missing_Usage_for_Collection"

IsUsageItem(ch) == ch.item \in {UsageName, UsageMinimumName, UsageMaximumName}

\* the last UsagePage chunk with a named argument before chunk k, 0 when none
LastNamedPage(k) ==
    Greatest({0} \cup {j \in 1..(k - 1) :
                          prog[j].item = UsagePageName /\ prog[j].form = "name"})

\* the usage table of that usage page, "NULL" when there is none
PageTable(k) ==
    IF LastNamedPage(k) = 0 THEN "NULL"
    ELSE usagePageMap[CHOOSE i \in 1..Len(usagePageMap) :
                          usagePageMap[i].name = prog[LastNamedPage(k)].body].arg

\* the entry of that table the argument of chunk k names, NullEnc when none
Resolved(k) == findEncoding(prog[k].body, Map(PageTable(k)), "E_Invalid_argument_name").enc

(***************************************************************************)
(* C9.  A named argument of Usage, UsageMinimum or UsageMaximum is         *)
(* resolved in the usage table of the usage page that the last named       *)
(* UsagePage item before it set; without a named UsagePage that has a      *)
(* usage table before it, every named Usage argument is rejected, while    *)
(* numeric, hex and parameter Usage arguments are accepted.                *)
(***************************************************************************)
C9_NamedUsageResolution ==
    \A k \in 1..Len(prog) :
        IsUsageItem(prog[k]) =>
            IF prog[k].form = "name"
            THEN /\ (PageTable(k) = "NULL" \/ Resolved(k) = NullEnc) => ~Accepted(k)
                 /\ (PageTable(k) # "NULL" /\ Resolved(k) # NullEnc) =>
                       /\ ~Rejected(k)
                       /\ JustClosed(k) =>
                             LastOf(out, 2) =
                                 << ItemValue(prog[k].item) + 1, Resolved(k).value >>
            ELSE ~Rejected(k)

\* a named usage was resolved in the table of the named usage page although
\* a numeric UsagePage came in between
C9_Witness ==
    /\ Len(prog) = 3
    /\ prog[1].item = UsagePageName /\ prog[1].form = "name"
    /\ prog[2].item = UsagePageName /\ prog[2].form = "dec"
    /\ IsUsageItem(prog[3]) /\ prog[3].form = "name"
    /\ PageTable(3) = "buttonMap" /\ Resolved(3) # NullEnc
    /\ JustClosed(3)

(***************************************************************************)
(* C10.  A named Usage, UsageMinimum or UsageMaximum argument that cannot  *)
(* be resolved for lack of a usage table fails with Missing_UsagePage if   *)
(* no UsagePage item of any kind was completed before it, and with         *)
(* Missing_named_UsagePage if one was.                                     *)
(***************************************************************************)
C10_MissingUsagePageError ==
    \A k \in 1..Len(prog) :
        (/\ IsUsageItem(prog[k]) /\ prog[k].form = "name" /\ PageTable(k) = "NULL"
         /\ Rejected(k)) =>
            error.message = IF \E j \in 1..(k - 1) : prog[j].item = UsagePageName
                            THEN "E_Missing_named_UsagePage"
                            ELSE "E_Missing_UsagePage"

\* a named usage after a numeric UsagePage only was rejected
C10_Witness ==
    /\ Len(prog) >= 2
    /\ \E k \in 2..Len(prog) :
          /\ IsUsageItem(prog[k]) /\ prog[k].form = "name" /\ PageTable(k) = "NULL"
          /\ prog[k - 1].item = UsagePageName /\ prog[k - 1].form \in {"dec", "param"}
          /\ Rejected(k) /\ error.message = "E_Missing_named_UsagePage"

\* the index into source of the first character of the argument of chunk k,
\* and of the character that ends the argument
ArgStart(k) == StartOf(k) + Len(prog[k].item) + 1

ArgEnd(k) == ArgStart(k) + Len(ArgText(prog[k]))

\* compile failed in chunk k for lack of a usage table
MissingPage(k) ==
    /\ IsUsageItem(prog[k]) /\ prog[k].form = "name" /\ Rejected(k)
    /\ error.message \in {"E_Missing_UsagePage", "E_Missing_named_UsagePage"}

(***************************************************************************)
(* C11 as stated.  Missing_UsagePage and Missing_named_UsagePage are       *)
(* reported at the start of the offending argument: the character offset   *)
(* of the diagnostic is the offset of the first byte of the Usage argument *)
(* name that could not be resolved.                                        *)
(***************************************************************************)
C11_ErrorAtArgumentStart ==
    \A k \in 1..Len(prog) : MissingPage(k) => error.character = ArgStart(k)

(***************************************************************************)
(* C11, amended.  Missing_UsagePage and Missing_named_UsagePage are        *)
(* reported at the end of the offending argument: the character offset of  *)
(* the diagnostic is the offset of the byte that ends the Usage argument   *)
(* name, the one right after its last byte.                                *)
(***************************************************************************)
C11_ErrorAtArgumentEnd ==
    \A k \in 1..Len(prog) :
        MissingPage(k) =>
            /\ error.character = ArgEnd(k)
            /\ source[ArgEnd(k) + 1] = 41

\* a named usage in the second or a later line failed for lack of a usage table
C11_Witness ==
    \E k \in 2..Len(prog) : MissingPage(k) /\ ArgStart(k) < ArgEnd(k)

\* the diagnostic holds an error
ErrorSet == error.message # "E_NO_ERROR"

\* what a step of compile can change: where it reads, what the sink holds,
\* the diagnostic, the result and its own variables
Progress ==
    << n, out, error, ret, pc, flags, tItem, tArg, item, arg, lit, encMap, usagePage,
       encUnit, hasArg, hasUsagePage, multiArg, negLit, colLevel, delimLevel,
       usageAtLevel, reportSizes, reportCounts >>

(***************************************************************************)
(* C12.  The first error halts the parse and error reporting is final:     *)
(* the step that sets the diagnostic to an error returns false, and from   *)
(* then on compile reads no source byte, writes no byte, looks up no       *)
(* parameter and leaves the diagnostic as it is; the bytes written before  *)
(* stay in the sink.                                                       *)
(***************************************************************************)
C12_FirstErrorIsFinal ==
    [][ /\ ErrorSet => UNCHANGED Progress
        /\ (~ErrorSet /\ ErrorSet') => (pc' = "done" /\ ret' = FALSE)
        /\ Len(out) <= Len(out') /\ SubSeq(out', 1, Len(out)) = out ]_vars

\* compile failed after it had written bytes and before the end of the source
C12_Witness ==
    /\ ErrorSet /\ pc = "done" /\ ~ret
    /\ out # << >> /\ n + 1 < Len(source)

\* the number of UTF-8 characters of a sequence of bytes
Characters(s) == Cardinality({k \in 1..Len(s) : isLeadByte(s[k])})

(***************************************************************************)
(* C13.  When compile fails, the diagnostic has line >= 1, column >= 1     *)
(* and character <= the number of UTF-8 characters of the source; its      *)
(* fields are those of the source bytes [0, pos) for an offset pos that    *)
(* is at most the size of the source, also for the errors at n + 2 of a    *)
(* truncated or invalid hex prefix.                                        *)
(***************************************************************************)
C13_DiagnosticInSource ==
    Failed =>
        /\ error.line >= 1 /\ error.column >= 1
        /\ error.character <= Characters(source)
        /\ \E pos \in 0..Len(source) :
              /\ error.character = Characters(SubSeq(source, 1, pos))
              /\ error.line = 1 + Cardinality({k \in 1..pos : source[k] = 10})
              /\ error.column <= 1 + Characters(SubSeq(source, 1, pos))

\* compile failed at the end of a source that ends in a hex prefix and holds
\* a multi-byte character
C13_Witness ==
    /\ Failed /\ error.message = "E_Unexpected_end_of_source"
    /\ Len(source) >= 2 /\ LastOf(source, 2) = << 48, 120 >>
    /\ Characters(source) < Len(source)
    /\ error.character = Characters(source)

\* the number of argument lists open before source[i]: the '(' less the ')'
ParenDepth(i) ==
    Cardinality({k \in 1..i : source[k] = 40}) - Cardinality({k \in 1..i : source[k] = 41})

NegativeError == "E_Negative_numbers_are_not_allowed_in_this_context"

\* compile is about to read a minus sign
AtMinus == pc = "loop" /\ n < Len(source) /\ source[n + 1] = 45

\* the step fails at the byte it read, with this error, and writes nothing
FailsHere(msg) ==
    /\ pc' = "done" /\ ret' = FALSE /\ n' = n /\ out' = out
    /\ error' = [character |-> Characters(SubSeq(source, 1, n)),
                 line |-> 1 + Cardinality({k \in 1..n : source[k] = 10}),
                 column |-> error'.column, message |-> msg]

(***************************************************************************)
(* C14 as stated.  Every '-' byte outside an argument list makes compile   *)
(* fail at once with Negative_numbers_are_not_allowed_in_this_context at   *)
(* that byte: compile never reads on past it, and when it stops there it   *)
(* has failed with that error.                                             *)
(***************************************************************************)
C14_MinusOutsideArgList ==
    \A i \in 0..(Len(source) - 1) :
        (source[i + 1] = 45 /\ ParenDepth(i) = 0) =>
            /\ n <= i
            /\ (pc = "done" /\ n = i) => (~ret /\ error.message = NegativeError)

(***************************************************************************)
(* C14, amended.  A '-' byte that compile meets in the START state, where  *)
(* an item, a literal, a parameter or a comment may begin, makes compile   *)
(* fail at once with Negative_numbers_are_not_allowed_in_this_context at   *)
(* that byte.  A '-' inside a comment or a parameter name is read over; a  *)
(* '-' right after an item name or a top-level literal fails at that byte  *)
(* with Unexpected_item_name_character, Invalid_numeric_value or           *)
(* Invalid_hex_value.                                                      *)
(***************************************************************************)
C14_MinusAtStart ==
    [][ (AtMinus /\ (n' # n \/ pc' # pc)) =>
            CASE flags = {} -> FailsHere(NegativeError)
              [] "COMMENT" \in flags \/ "PARAM" \in flags ->
                    pc' = "loop" /\ n' = n + 1 /\ out' = out /\ error' = error
              [] flags = {"ITEM"} -> FailsHere("E_Unexpected_item_name_character")
              [] flags = {"NUM_LIT"} -> FailsHere("E_Invalid_numeric_value")
              [] flags = {"HEX_LIT"} -> FailsHere("E_Invalid_hex_value")
              [] OTHER -> TRUE ]_vars

\* compile failed at a '-' in the START state after it had written an item
C14_Witness ==
    /\ Failed /\ error.message = NegativeError
    /\ n < Len(source) /\ source[n + 1] = 45 /\ flags = {} /\ out # << >>

\* compile has returned from the caller's second call
SecondDone == prev.ran /\ pc = "done"

(***************************************************************************)
(* C15.  The outcome of compile does not depend on the sink: called on the *)
(* same source and parameters with a BufferWriter of any capacity, also    *)
(* one too small, with a SizeEstimator or with a NullWriter, it returns    *)
(* the same boolean and leaves the same diagnostic as with a BufferWriter  *)
(* that holds all bytes, and the position of the SizeEstimator, which      *)
(* compiledSize returns, is the number of bytes that BufferWriter got.     *)
(***************************************************************************)
C15_SinkIndependent ==
    (SecondDone /\ prev.edit.kind = "sink") =>
        /\ source = prev.source
        /\ ret = prev.ret /\ error = prev.error
        /\ prev.writer.size >= Len(prev.out)
        /\ writer.kind = "SizeEstimator" => getPosition(writer) = getPosition(prev.writer)
        /\ writer.kind = "NullWriter" => getPosition(writer) = 0

\* compile succeeded a second time, with a buffer too small for its bytes
C15_Witness ==
    /\ SecondDone /\ prev.edit.kind = "sink" /\ ret
    /\ writer.kind = "BufferWriter" /\ writer.size < Len(out)

\* the lesser of two numbers
Min(a, b) == IF a < b THEN a ELSE b

(***************************************************************************)
(* C16.  A BufferWriter never writes outside its buffer: its position is   *)
(* at most its capacity, a write at full capacity returns false and        *)
(* changes neither buffer nor position, and the buffer holds the first     *)
(* min(capacity, total) bytes compile tried to write, in order, the rest   *)
(* of it and the byte behind it being untouched.                           *)
(***************************************************************************)
C16_BufferWriterInBounds ==
    writer.kind = "BufferWriter" =>
        /\ writer.pos <= writer.size
        /\ writer.pos = Min(writer.size, Len(out))
        /\ \A k \in 1..(writer.size + 1) :
              writer.data[k] = IF k <= writer.pos THEN out[k] ELSE Untouched
        /\ writer.pos >= writer.size =>
              \A b \in 0..255 : write(writer, b) = [writer |-> writer, ret |-> FALSE]

\* compile tried to write more bytes than the buffer has, which has some
C16_Witness ==
    /\ writer.kind = "BufferWriter" /\ pc = "done"
    /\ 0 < writer.size /\ writer.size + 1 < Len(out)

(***************************************************************************)
(* C17.  Item names and argument names, with unit system names, unit       *)
(* names, the letters of indexed names and hex digits, are matched without *)
(* regard to case: the source with the case of one such letter changed     *)
(* gives the same diagnostic and the same bytes.  Parameter names are      *)
(* matched with regard to case: with the case of a letter of a parameter   *)
(* name changed, a source that compiled fails, as no parameter has that    *)
(* name.                                                                   *)
(***************************************************************************)
C17_CaseInsensitiveNames ==
    (SecondDone /\ prev.edit.kind = "case") =>
        IF prev.edit.inParam
        THEN prev.ret =>
                 /\ ~ret /\ error.message = "E_Expected_valid_parameter_name_here"
                 /\ source[n + 1] = 125
        ELSE ret = prev.ret /\ error = prev.error /\ out = prev.out

\* a source with an indexed usage name, a unit or hex digits compiled with
\* the case of a letter changed
C17_Witness ==
    /\ SecondDone /\ prev.edit.kind = "case" /\ ~prev.edit.inParam /\ ret
    /\ Len(out) >= 4 /\ source # prev.source
    /\ \E k \in 1..Len(prog) : prog[k].form = "name" /\ prog[k].body = << 66, 117, 116, 116, 111, 110, 51 >>

(***************************************************************************)
(* C18.  Whitespace between tokens is insignificant: when a source         *)
(* compiles, the source with a whitespace byte (space, tab, CR, LF, VT,    *)
(* FF) put in between two adjacent tokens (item name, '(', argument name   *)
(* or literal or parameter, ',', ')') compiles as well, to the same bytes. *)
(***************************************************************************)
C18_WhitespaceInsignificant ==
    (SecondDone /\ prev.edit.kind = "space" /\ prev.ret) => (ret /\ out = prev.out)

\* the locals of compile but flags and n, and what it has written
CommentFrame ==
    << colLevel, delimLevel, usageAtLevel, reportSizes, reportCounts, tItem, tArg,
       hasUsagePage, hasArg, multiArg, negLit, encMap, usagePage, encUnit, item, arg,
       lit, out, writer, error, ret >>

\* compile reads source[n + 1] in this step
Reads == pc = "loop" /\ n < Len(source) /\ (n' # n \/ pc' # pc \/ flags' # flags)

\* a call of compile on the source with the content of a comment changed has
\* returned
CommentEdited == SecondDone /\ prev.edit.kind = "comment"

(***************************************************************************)
(* C19.  A comment starts at a '#' or ';' read in the START state and ends *)
(* at the next CR or LF or at the end of the source.  A step within a      *)
(* comment writes no byte and changes no local of compile but the flags    *)
(* (and the place in the source): the flags go back to START at CR or LF   *)
(* and stay otherwise.  In any other state no byte starts a comment.       *)
(* Hence compile on the source with the content of a comment replaced by   *)
(* other bytes free of CR, LF and NUL returns the same, with the same      *)
(* message, and writes the same bytes.                                     *)
(***************************************************************************)
C19_Comments ==
    [][     /\ (Reads /\ flags = {} /\ isComment(source[n + 1]))
                  => (flags' = {"COMMENT"} /\ n' = n + 1 /\ pc' = "loop")
            /\ (Reads /\ "COMMENT" \in flags)
                  => /\ UNCHANGED CommentFrame
                     /\ n' = n + 1 /\ pc' = "loop"
                     /\ flags' = IF source[n + 1] \in {13, 10} THEN {} ELSE {"COMMENT"}
            /\ ("COMMENT" \in flags' /\ "COMMENT" \notin flags /\ pc = "loop")
                  => (flags = {} /\ isComment(source[n + 1]) /\ flags' = {"COMMENT"})
            /\ CommentEdited'
                  => (ret' = prev'.ret /\ out' = prev'.out
                         /\ error'.message = prev'.error.message)
         ]_vars

\* the content of a comment that held an item name has been changed, after an
\* item that wrote a byte, and compile has returned true once more
C19_Witness ==
    /\ CommentEdited /\ ret /\ out # << >>
    /\ \E i \in 1..Len(prev.source) : prev.source[i] = 35 /\ i > 1
    /\ prev.source # source

\* the names Input, Output and Feature, in capitals
FlagItemNames ==
    { << 73, 78, 80, 85, 84 >>, << 79, 85, 84, 80, 85, 84 >>,
      << 70, 69, 65, 84, 85, 82, 69 >> }

\* the item compile has read last is Input, Output or Feature
FlagItem == encMap # NullEnc /\ [k \in 1..Len(encMap.name) |-> toUpper(encMap.name[k])] \in FlagItemNames

\* compile is inside an argument list of Input, Output or Feature
InFlagList == "ARG_LIST" \in flags /\ FlagItem

\* compile reads a comma in an argument list, outside a parameter name
AtComma ==
    /\ pc = "loop" /\ n < Len(source) /\ source[n + 1] = 44
    /\ "ARG_LIST" \in flags /\ "PARAM" \notin flags

(***************************************************************************)
(* C20.  The comma is permitted only in the argument lists of Input,       *)
(* Output and Feature: a step that reads a ',' in the argument list of     *)
(* another item, outside a parameter name, makes compile fail, and         *)
(* multiArg is false whenever compile is not inside an argument list of    *)
(* Input, Output or Feature.                                               *)
(***************************************************************************)
C20_CommaOnlyInFlagLists ==
    [][ /\ (AtComma /\ ~InFlagList /\ (n' # n \/ pc' # pc \/ flags' # flags))
              => (pc' = "done" /\ ~ret' /\ error'.message # "E_NO_ERROR")
        /\ multiArg' => InFlagList'
      ]_vars

\* a comma has been read in the argument list of an item other than Input,
\* Output and Feature, and compile has failed at it
C20_Witness ==
    /\ pc = "done" /\ ~ret /\ ~multiArg
    /\ "ARG_LIST" \in flags /\ ~FlagItem
    /\ error.character < Len(source) /\ source[error.character + 1] = 44

\* the names of the claim that clear their bit: Data, Ary, Abs, NWarp, Lin,
\* Prf, NNull, NVol, Bit
ClearNames ==
    { << 68, 97, 116, 97 >>, << 65, 114, 121 >>, << 65, 98, 115 >>,
      << 78, 87, 97, 114, 112 >>, << 76, 105, 110 >>, << 80, 114, 102 >>,
      << 78, 78, 117, 108, 108 >>, << 78, 86, 111, 108 >>, << 66, 105, 116 >> }

\* the table of the arguments of an item
ArgTable(name) == Map(itemMap[CHOOSE i \in 1..Len(itemMap) : itemMap[i].name = name].arg)

\* the table of item name has an entry called a
Names(name, a) == \E i \in 1..Len(ArgTable(name)) : ArgTable(name)[i].name = a

\* the bit of the argument name a of item name
BitOf(name, a) ==
    U32(ArgTable(name)[CHOOSE i \in 1..Len(ArgTable(name)) : ArgTable(name)[i].name = a].value)

\* the arguments folded from left to right into acc
RECURSIVE Fold(_, _, _)
Fold(name, args, acc) ==
    IF args = << >> THEN acc
    ELSE Fold(name, Tail(args),
              IF args[1].form # "name" THEN Or32(acc, Value32(args[1]))
              ELSE IF args[1].body \in ClearNames THEN AndNot32(acc, BitOf(name, args[1].body))
              ELSE Or32(acc, BitOf(name, args[1].body)))

\* every argument of chunk k is one its item takes
Takes(k) ==
    \A j \in 1..Len(prog[k].body) :
        prog[k].body[j].form = "name" => Names(prog[k].item, prog[k].body[j].body)

(***************************************************************************)
(* C21.  The payload of an Input, Output or Feature item is the fold of    *)
(* its arguments from left to right, starting from 0: a name of the        *)
(* clearing kind clears its bit, any other name sets its bit, a number, a  *)
(* hex number or a parameter is OR-ed in.  The item is written as its      *)
(* prefix byte and that payload when its list is closed, and a list of     *)
(* arguments the item takes is closed.                                     *)
(***************************************************************************)
C21_FlagFold ==
    \A k \in 1..Len(prog) :
        prog[k].form = "list" =>
            /\ JustClosed(k) =>
                  LET v   == Fold(prog[k].item, prog[k].body, U32(0))
                      len == MinUnsigned(v)
                  IN  /\ Takes(k)
                      /\ Len(out) >= 1 + len
                      /\ LastOf(out, 1 + len) =
                            << ItemValue(prog[k].item) + SizeCode(len) >> \o LittleEndian(v, len)
            /\ (Takes(k) /\ pc = "done" /\ n >= EndOf(k)) => (ret \/ n > EndOf(k))

\* an item has been written whose second argument cleared the bit its first
\* argument had set
C21_Witness ==
    \E k \in 1..Len(prog) :
        /\ prog[k].form = "list" /\ JustClosed(k) /\ Len(prog[k].body) = 2
        /\ prog[k].body[1].form # "name" /\ prog[k].body[2].body \in ClearNames
        /\ Fold(prog[k].item, prog[k].body, U32(0)) # Value32(prog[k].body[1])
        /\ LastOf(out, 1) = << 2 >>

\* the code of a unit system: None 0, SiLin 1, SiRot 2, EngLin 3, EngRot 4
SystemCode(sys) ==
    CASE sys = << 78, 111, 110, 101 >>           -> 0
      [] sys = << 83, 105, 76, 105, 110 >>       -> 1
      [] sys = << 83, 105, 82, 111, 116 >>       -> 2
      [] sys = << 69, 110, 103, 76, 105, 110 >>  -> 3
      [] sys = << 69, 110, 103, 82, 111, 116 >>  -> 4

\* the nibble of a unit: Length 1, Mass 2, Time 3, Temp 4, Current 5, Luminous 6
UnitNibble(u) ==
    CASE u = << 76, 101, 110, 103, 116, 104 >>            -> 1
      [] u = << 77, 97, 115, 115 >>                       -> 2
      [] u = << 84, 105, 109, 101 >>                      -> 3
      [] u = << 84, 101, 109, 112 >>                      -> 4
      [] u = << 67, 117, 114, 114, 101, 110, 116 >>       -> 5
      [] u = << 76, 117, 109, 105, 110, 111, 117, 115 >>  -> 6

\* how one of -8..7 is written: a sign for the negative ones, one digit
Written(e) == IF e < 0 THEN << 45, 48 - e >> ELSE << 48 + e >>

\* the exponent of a unit of a description is one compile takes
GoodExponent(t) == t.exp = << >> \/ \E e \in -8..7 : t.exp = Written(e)

\* the exponent a unit of a description stands for
ExponentOf(t) == IF t.exp = << >> THEN 1 ELSE CHOOSE e \in -8..7 : t.exp = Written(e)

\* nibble p of the value of the Unit item of chunk k
NibbleOf(k, p) ==
    LET named == {j \in 1..Len(prog[k].body) : UnitNibble(prog[k].body[j].unit) = p}
    IN  IF p = 0 THEN SystemCode(prog[k].sys)
        ELSE IF named = {} THEN 0
        ELSE (ExponentOf(prog[k].body[Greatest(named)]) + 16) % 16

\* the value of the Unit item of chunk k
UnitValue(k) ==
    << NibbleOf(k, 4) + 16 * NibbleOf(k, 5) + 256 * NibbleOf(k, 6) + 4096 * NibbleOf(k, 7),
       NibbleOf(k, 0) + 16 * NibbleOf(k, 1) + 256 * NibbleOf(k, 2) + 4096 * NibbleOf(k, 3) >>

GoodExponents(k) == \A j \in 1..Len(prog[k].body) : GoodExponent(prog[k].body[j])

(***************************************************************************)
(* C22.  The value of an accepted Unit(System(units...)) has the code of   *)
(* the unit system in nibble 0 and, for each unit named, the 4-bit two's   *)
(* complement code of its exponent in the nibble of the unit, 1 when no    *)
(* exponent is written, the last occurrence of a repeated unit winning,    *)
(* and 0 in every other nibble, whatever the order of the units.  The item *)
(* is accepted exactly if each exponent is one of -8..7, written without   *)
(* sign for zero and without leading zeros.                                *)
(***************************************************************************)
C22_UnitValue ==
    \A k \in 1..Len(prog) :
        prog[k].form = "unit" =>
            /\ JustClosed(k) =>
                  LET v   == UnitValue(k)
                      len == MinUnsigned(v)
                  IN  /\ GoodExponents(k)
                      /\ Len(out) >= 1 + len
                      /\ LastOf(out, 1 + len) =
                            << ItemValue(prog[k].item) + SizeCode(len) >> \o LittleEndian(v, len)
            /\ (GoodExponents(k) /\ pc = "done" /\ n >= StartOf(k) /\ n <= EndOf(k)) => ret
            /\ (~GoodExponents(k) /\ pc = "done" /\ n >= StartOf(k)) =>
                  (~ret /\ n < EndOf(k) /\ error.message = "E_Invalid_unit_exponent")

\* a Unit item with a repeated unit has been written, the exponent written
\* last being negative
C22_Witness ==
    \E k \in 1..Len(prog) :
        /\ prog[k].form = "unit" /\ JustClosed(k) /\ Len(prog[k].body) = 2
        /\ prog[k].body[1].unit = prog[k].body[2].unit
        /\ prog[k].body[1].exp # prog[k].body[2].exp
        /\ ExponentOf(prog[k].body[2]) < 0

UnitExponentName == << 85, 110, 105, 116, 69, 120, 112, 111, 110, 101, 110, 116 >>

\* the value of the argument of a chunk lies in [-8, 7]
InExponentRange(ch) ==
    CASE ch.form = "dec"   -> IF ch.neg THEN ~Greater(ch.body, << 56 >>)
                              ELSE ~Greater(ch.body, << 55 >>)
      [] ch.form = "hex"   -> ~Greater(ch.body, << 55 >>)
      [] ch.form = "param" -> \/ find(ch.body).value[1] = 0 /\ ~Lt32(U32(7), find(ch.body).value[2])
                              \/ find(ch.body).value[1] = -1
                                    /\ ~Lt32(find(ch.body).value[2], << 65535, 65528 >>)
      [] OTHER             -> FALSE

(***************************************************************************)
(* C23.  UnitExponent accepts exactly the arguments whose value lies in    *)
(* [-8, 7] and writes for them 0x55 and one byte, the 4-bit two's          *)
(* complement code of the value; every argument with a value outside       *)
(* [-8, 7] fails with Argument_value_out_of_range.  UnitExponent(-0) is    *)
(* accepted and written as 0.                                              *)
(***************************************************************************)
C23_UnitExponentRange ==
    \A k \in 1..Len(prog) :
        (prog[k].item = UnitExponentName /\ prog[k].form \in {"dec", "hex", "param"}) =>
            /\ JustClosed(k) =>
                  /\ InExponentRange(prog[k])
                  /\ Len(out) >= 2
                  /\ LastOf(out, 2) = << 85, Value32(prog[k])[2] % 16 >>
            /\ (InExponentRange(prog[k]) /\ pc = "done" /\ n >= StartOf(k) /\ n <= EndOf(k)) => ret
            /\ (~InExponentRange(prog[k]) /\ pc = "done" /\ n >= StartOf(k)) =>
                  (~ret /\ n < EndOf(k) /\ error.message = "E_Argument_value_out_of_range")

(***************************************************************************)
(* Indexed names as the usage tables declare them.                         *)
(***************************************************************************)
\* the place of the first entry of table t whose name ends in '#', 0 if none
IndexedAt(t) ==
    LET map == Map(t)
    IN  Greatest({0} \cup {i \in 1..(Len(map) - 1) :
                     /\ map[i].name[Len(map[i].name)] = 35
                     /\ \A j \in 1..(i - 1) : map[j].name[Len(map[j].name)] # 35})

\* the number a digit string stands for, NumberCap when it is that or more
NumberCap == 1000000

RECURSIVE Number(_, _)
Number(d, acc) ==
    IF d = << >> THEN acc
    ELSE Number(Tail(d), IF 10 * acc + (d[1] - 48) > NumberCap THEN NumberCap
                         ELSE 10 * acc + (d[1] - 48))

\* chunk k names a usage where the usage page has a table with an indexed
\* entry, by a name that is none of the plain names before that entry
IndexedCase(k) ==
    /\ IsUsageItem(prog[k]) /\ prog[k].form = "name"
    /\ PageTable(k) # "NULL" /\ IndexedAt(PageTable(k)) > 0
    /\ \A j \in 1..(IndexedAt(PageTable(k)) - 1) :
          ~equalsI(prog[k].body, Map(PageTable(k))[j].name)

IndexPrefix(k) ==
    LET e == Map(PageTable(k))[IndexedAt(PageTable(k))]
    IN  SubSeq(e.name, 1, Len(e.name) - 1)

IndexMin(k) == Map(PageTable(k))[IndexedAt(PageTable(k))].value

IndexMax(k) == Map(PageTable(k))[IndexedAt(PageTable(k)) + 1].value

\* the token of chunk k starts with the prefix, up to the case of letters
HasIndexPrefix(k) ==
    /\ Len(prog[k].body) >= Len(IndexPrefix(k))
    /\ equalsI(SubSeq(prog[k].body, 1, Len(IndexPrefix(k))), IndexPrefix(k))

\* what follows the prefix in the token of chunk k
IndexDigits(k) == SubSeq(prog[k].body, Len(IndexPrefix(k)) + 1, Len(prog[k].body))

\* that is a decimal number
IsIndexNumber(k) ==
    /\ HasIndexPrefix(k)
    /\ IndexDigits(k) # << >>
    /\ \A i \in 1..Len(IndexDigits(k)) : isDigit(IndexDigits(k)[i])

IndexInRange(k) ==
    /\ Number(IndexDigits(k), 0) >= IndexMin(k)
    /\ Number(IndexDigits(k), 0) <= IndexMax(k)

\* the token of chunk k matches the indexed entry
IndexMatches(k) ==
    /\ IsIndexNumber(k)
    /\ IndexDigits(k)[1] # 48 \/ Number(IndexDigits(k), 0) = 0
    /\ IndexInRange(k)

(***************************************************************************)
(* C24.  A usage name matches an indexed table entry (Button#, Instance#,  *)
(* Ucs#, Enum#) exactly if its start equals the prefix before '#' up to    *)
(* the case of letters, the rest is a non-empty decimal number without a   *)
(* leading zero unless the number is zero, and the number lies in the      *)
(* entry's [min, max]; the usage is then that number.  A number outside    *)
(* [min, max], also one of 2^32 or more, fails with                        *)
(* Argument_index_out_of_range and is never taken as the index it wraps    *)
(* to.                                                                     *)
(***************************************************************************)
C24_IndexedNames ==
    \A k \in 1..Len(prog) :
        IndexedCase(k) =>
            /\ IndexMatches(k) =>
                  /\ ~Rejected(k)
                  /\ JustClosed(k) =>
                        LET v   == U32(Number(IndexDigits(k), 0))
                            len == MinUnsigned(v)
                        IN  /\ Len(out) >= 1 + len
                            /\ LastOf(out, 1 + len) =
                                  << ItemValue(prog[k].item) + SizeCode(len) >>
                                      \o LittleEndian(v, len)
            /\ ~IndexMatches(k) => ~Accepted(k) /\ ~JustClosed(k)
            /\ (IsIndexNumber(k) /\ ~IndexInRange(k) /\ Rejected(k)) =>
                  error.message = "E_Argument_index_out_of_range"

\* the greatest index of the buttons was written, its name in small letters
C24_Witness ==
    \E k \in 1..Len(prog) :
        /\ IndexedCase(k) /\ IndexMatches(k) /\ JustClosed(k)
        /\ prog[k].body # IndexPrefix(k) \o IndexDigits(k)
        /\ Number(IndexDigits(k), 0) = 65535

(***************************************************************************)
(* Parameters.                                                             *)
(***************************************************************************)
IsParameter(ch) == ch.form = "param"

TopLevel(ch) == ch.item = << >>

\* the offset of the closing brace of the parameter of chunk k
BraceOf(k) == IF TopLevel(prog[k]) THEN EndOf(k) - 1 ELSE EndOf(k) - 2

\* compile failed at the closing brace of the parameter of chunk k
FailedAtBrace(k) == Failed /\ n = BraceOf(k) /\ error.character = BraceOf(k)

\* compile has read the closing brace of the parameter of chunk k and went on
PastBrace(k) == pc = "loop" /\ n = BraceOf(k) + 1

\* the name between the braces is one of the provider's, byte by byte
Known(ch) == \E p \in 1..Len(Params) : Params[p].name = ch.body

\* the value the provider gives is negative
NegativeValue(ch) == find(ch.body).value[1] < 0

\* the range the parameter of a chunk is checked against holds its value
InParamRange(ch) ==
    IF TopLevel(ch) THEN FitsUnsigned(ch)
    ELSE IF ch.item \in SignedItems THEN FitsSigned(ch)
    ELSE FitsUnsigned(ch)

\* the error of a parameter
ParamError(ch) ==
    IF ~Known(ch) THEN "E_Expected_valid_parameter_name_here"
    ELSE IF TopLevel(ch) /\ NegativeValue(ch)
    THEN "E_Negative_numbers_are_not_allowed_in_this_context"
    ELSE IF ~InParamRange(ch) THEN "E_Parameter_value_out_of_range"
    ELSE "E_NO_ERROR"

(***************************************************************************)
(* C25.  A parameter is looked up by exactly the bytes between its braces. *)
(* At top level an unknown name fails with                                 *)
(* Expected_valid_parameter_name_here at the offset of the closing brace,  *)
(* a negative value with Negative_numbers_are_not_allowed_in_this_context, *)
(* a value above 0xFFFFFFFF with Parameter_value_out_of_range; any other   *)
(* value is written in the least of 1, 2 and 4 bytes, little-endian.  In   *)
(* an argument list the value is checked against the signed 32-bit range   *)
(* for the signed items and the unsigned one otherwise, and merged into    *)
(* the argument only when it passed.                                       *)
(***************************************************************************)
C25_Parameters ==
    \A k \in 1..Len(prog) :
        IsParameter(prog[k]) =>
            /\ ParamError(prog[k]) # "E_NO_ERROR" =>
                  /\ ~PastBrace(k) /\ ~Accepted(k)
                  /\ (Failed /\ n >= StartOf(k)) =>
                        /\ FailedAtBrace(k)
                        /\ error.message = ParamError(prog[k])
                        /\ TopLevel(prog[k]) \/ (arg = U32(0) /\ ~hasArg)
            /\ ParamError(prog[k]) = "E_NO_ERROR" =>
                  /\ ~FailedAtBrace(k)
                  /\ PastBrace(k) =>
                        IF TopLevel(prog[k])
                        THEN LET v   == Value32(prog[k])
                                 len == MinUnsigned(v)
                             IN  /\ Len(out) >= len
                                 /\ LastOf(out, len) = LittleEndian(v, len)
                        ELSE arg = Value32(prog[k]) /\ hasArg

\* a known name with spaces around it between the braces was not found
C25_Witness ==
    \E k \in 1..Len(prog) :
        /\ IsParameter(prog[k]) /\ TopLevel(prog[k]) /\ ~Known(prog[k])
        /\ Len(prog[k].body) = 3 /\ Known([prog[k] EXCEPT !.body = << prog[k].body[2] >>])
        /\ FailedAtBrace(k) /\ error.message = "E_Expected_valid_parameter_name_here"

(***************************************************************************)
(* The bound of usages and usage pages.                                    *)
(***************************************************************************)
IsUsageKind(ch) == ch.item = UsagePageName \/ IsUsageItem(ch)

IsNumber(ch) == ch.form \in {"dec", "hex", "param"}

\* the value of the argument of a chunk is above 0xFFFF
Above16Bits(ch) ==
    CASE ch.form = "dec"   -> Greater(ch.body, << 54, 53, 53, 51, 53 >>)
      [] ch.form = "hex"   -> Greater(ch.body, << 70, 70, 70, 70 >>)
      [] ch.form = "param" -> \/ find(ch.body).value[1] > 0
                              \/ find(ch.body).value[1] = 0 /\ find(ch.body).value[2][1] > 0
      [] OTHER             -> FALSE

\* compile failed at the closing parenthesis of chunk k
FailedAtClose(k) == Failed /\ n = EndOf(k) - 1 /\ error.character = EndOf(k) - 1

\* chunk k was written with a payload of 1 or 2 bytes
ShortItemWritten(k) ==
    \E len \in 1..2 :
        /\ Len(out) >= 1 + len
        /\ LastOf(out, 1 + len)[1] = ItemValue(prog[k].item) + SizeCode(len)
        /\ IsNumber(prog[k]) =>
              /\ len = MinUnsigned(Value32(prog[k]))
              /\ LastOf(out, len) = LittleEndian(Value32(prog[k]), len)

\* what holds of chunk k, a usage or usage page, in every state
UsageBoundState(k) ==
    /\ JustClosed(k) => ShortItemWritten(k) /\ ~Above16Bits(prog[k])
    /\ Above16Bits(prog[k]) => ~Accepted(k)

\* compile is reading chunk k, or failed in it
Reading(k) == n >= StartOf(k) /\ pc = "loop"

(***************************************************************************)
(* C28 as stated.  Every UsagePage, Usage, UsageMinimum and UsageMaximum   *)
(* item written carries a value of at most 0xFFFF in a payload of 1 or 2   *)
(* bytes; every decimal, hex or parameter argument above 0xFFFF fails with *)
(* Argument_value_out_of_range at the closing parenthesis, and nothing is  *)
(* written for the item.                                                   *)
(***************************************************************************)
C28_AboveBoundFailsAtClose ==
    [][\A k \in 1..Len(prog) :
          IsUsageKind(prog[k]) =>
              /\ UsageBoundState(k)'
              /\ (IsNumber(prog[k]) /\ Above16Bits(prog[k])) =>
                    /\ Reading(k) => out' = out
                    /\ (Failed' /\ n' >= StartOf(k)) =>
                          (FailedAtClose(k)' /\ error'.message = "E_Argument_value_out_of_range")]_vars

(***************************************************************************)
(* C28.  Every UsagePage, Usage, UsageMinimum and UsageMaximum item        *)
(* written carries a value of at most 0xFFFF in a payload of 1 or 2 bytes. *)
(* A decimal, hex or parameter argument above 0xFFFF is never accepted and *)
(* nothing is written for its item; if its value is at most 0xFFFFFFFF it  *)
(* fails with Argument_value_out_of_range at the closing parenthesis, and  *)
(* if it is greater it fails there or before.                              *)
(***************************************************************************)
C28_UsageBound ==
    [][\A k \in 1..Len(prog) :
          IsUsageKind(prog[k]) =>
              /\ UsageBoundState(k)'
              /\ (IsNumber(prog[k]) /\ Above16Bits(prog[k])) =>
                    /\ Reading(k) => out' = out
                    /\ (Failed' /\ n' >= StartOf(k)) =>
                          /\ n' < EndOf(k)
                          /\ FitsUnsigned(prog[k]) =>
                                (FailedAtClose(k)' /\ error'.message = "E_Argument_value_out_of_range")]_vars

\* a usage of 2147483648 given by a parameter failed at the closing
\* parenthesis, after a usage page had been written
C28_Witness ==
    /\ Len(prog) = 2 /\ Accepted(1) /\ out # << >>
    /\ IsUsageItem(prog[2]) /\ prog[2].form = "param"
    /\ Above16Bits(prog[2]) /\ FitsUnsigned(prog[2])
    /\ FailedAtClose(2) /\ error.message = "E_Argument_value_out_of_range"

(***************************************************************************)
(* Items without an argument list.                                         *)
(***************************************************************************)
PushName == << 80, 117, 115, 104 >>

PopName == << 80, 111, 112 >>

UnitName == << 85, 110, 105, 116 >>

NoArgumentItems == {PushName, PopName, EndCollectionName}

\* chunk k is an item name alone
Bare(k) == prog[k].item # << >> /\ prog[k].form = "none"

\* this step is the one in which chunk k is accepted
Accepting(k) == ~Accepted(k) /\ Accepted(k)'

(***************************************************************************)
(* C26.  Push, Pop and EndCollection take no arguments: when one of them   *)
(* is accepted, it was written without an argument list and exactly one    *)
(* byte is written for it, its prefix with size code 0 (0xA4, 0xB4, 0xC0); *)
(* with an argument list it is never accepted, Push and Pop failing with   *)
(* This_item_has_no_arguments.                                             *)
(***************************************************************************)
C26_NoArguments ==
    [][\A k \in 1..Len(prog) :
          prog[k].item \in NoArgumentItems =>
              /\ Accepting(k) =>
                    /\ Bare(k)
                    /\ out' = out \o << ItemValue(prog[k].item) >>
              /\ (~Bare(k) /\ prog[k].item # EndCollectionName /\ Rejected(k)') =>
                    error'.message = "E_This_item_has_no_arguments"]_vars

(***************************************************************************)
(* Bare items.                                                             *)
(***************************************************************************)
\* the items the claim lists as needing an argument list
NeedArgumentItems ==
    { << 73, 110, 112, 117, 116 >>, << 79, 117, 116, 112, 117, 116 >>,
      << 70, 101, 97, 116, 117, 114, 101 >>,
      CollectionName, UsagePageName, UnitExponentName, UnitName,
      UsageName, UsageMinimumName, UsageMaximumName, DelimiterName }

\* the chunk that opens a collection: Usage(1), new line, Collection(1)
Preamble ==
    [item |-> << >>, form |-> "raw", neg |-> FALSE,
     body |-> UsageName \o << 40, 49, 41, 10 >> \o CollectionName \o << 40, 49, 41 >>]

\* all chunks before chunk k but the first are in the one collection the
\* first opens
InOneCollection(k) ==
    /\ k >= 2 /\ prog[1] = Preamble
    /\ \A j \in 2..(k - 1) : prog[j] # Preamble /\ prog[j].item # EndCollectionName

\* the chunks before chunk k that are the item name with an argument list
WithArgument(name, k) == {j \in 1..(k - 1) : prog[j].item = name /\ ~Bare(j)}

\* the error of the pairing of ReportSize and ReportCount at chunk k, counted
\* over the items that have an argument list
PairingError(k) ==
    LET sizes  == Cardinality(WithArgument(ReportSizeName, k))
        counts == Cardinality(WithArgument(ReportCountName, k))
    IN  IF sizes < counts THEN "E_Missing_ReportSize"
        ELSE IF counts < sizes THEN "E_Missing_ReportCount"
        ELSE "E_NO_ERROR"

Iteration ==
    /\ pc = "loop" /\ source' = source /\ sourceEnded' = sourceEnded /\ prog' = prog
    /\ vars' # vars

\* the iteration ended with continue: the byte at n is read again
Reprocess == Iteration /\ pc' = "loop" /\ n' = n

\* the next iteration goes on to the next byte, or returns
Advances == \A r \in {LoopBody(Cur)} : r.pc # "loop" \/ r.n > n

RECURSIVE BeforeComment(_)
BeforeComment(s) ==
    IF s = << >> \/ s[1] \in {35, 59} THEN << >> ELSE << s[1] >> \o BeforeComment(Tail(s))

\* the last line of a source
RECURSIVE LastLine(_)
LastLine(s) ==
    IF \E i \in 1..Len(s) : s[i] = 10 THEN LastLine(Tail(s)) ELSE s

\* how many times byte b occurs in s
Count(s, b) == Cardinality({i \in 1..Len(s) : s[i] = b})

\* a source ends inside an argument list or a unit description: a '(' is
\* not closed; or inside a parameter: a '{' is not closed
EndsInside(s) ==
    LET code == BeforeComment(LastLine(s))
    IN  \/ Count(code, 40) > Count(code, 41)
        \/ Count(code, 123) > Count(code, 125)

\* a call of compile on the source with a whitespace byte appended has returned
AppendedDone == SecondDone /\ prev.edit.kind = "append"

(***************************************************************************)
(* C30.  What compile does with a literal or an item the source ends in is *)
(* what it does with one that a whitespace byte follows: a source compiles *)
(* to the bytes B exactly if the source with one whitespace byte appended  *)
(* compiles to B.  A source that ends inside an argument list, a parameter *)
(* or a unit description does not compile.                                 *)
(***************************************************************************)
C30_EndOfSource ==
    /\ AppendedDone => (ret = prev.ret /\ (ret => out = prev.out))
    /\ (pc = "done" /\ EndsInside(source)) => ~ret

\* a source that ends in a literal was compiled with and without a
\* whitespace byte after it, and the literal was written
C30_Witness ==
    /\ AppendedDone /\ ret /\ out # << >>
    /\ isDigit(prev.source[Len(prev.source)])
    /\ Len(source) = Len(prev.source) + 1

(***************************************************************************)
(* The end of a unit description.                                          *)
(***************************************************************************)
\* the loop is about to read a ')' in a unit description, outside a unit
\* name and an exponent
AtDescriptionClose ==
    /\ pc = "loop" /\ n < Len(source) /\ source[n + 1] = 41
    /\ {"ARG", "UNIT_DESC"} \subseteq flags
    /\ "UNIT" \notin flags /\ "UNIT_EXP" \notin flags

\* the loop is about to read the ')' that ends the argument list of Unit
AtUnitListClose ==
    /\ pc = "loop" /\ n < Len(source) /\ source[n + 1] = 41
    /\ flags = {"ARG_LIST"} /\ hasArg
    /\ item = U32(ItemValue(UnitName))

\* the Unit item with the value arg has just been appended to what was written
UnitWritten ==
    out' = out \o << ItemValue(UnitName) + SizeCode(MinUnsigned(arg)) >>
               \o LittleEndian(arg, MinUnsigned(arg))

\* the source ending where the loop is makes compile fail
EndsUnexpectedly ==
    \A r \in {EndOfSource(Cur)} :
        r.pc = "done" /\ ~r.ret /\ r.error.message = "E_Unexpected_end_of_source"

UsageAtDepth(k) ==
    \E j \in 1..(k - 1) : prog[j].item = UsageName /\ ColDepth(j) = ColDepth(k - 1)

\* compile failed at chunk k for want of a Usage
MissingUsage(k) == Rejected(k) /\ error.message = "E_Missing_Usage_for_Collection"

\* an EndCollection chunk lies between the last Usage chunk before chunk k
\* and chunk k
ClosedSinceUsage(k) ==
    \E j \in 1..(k - 1) :
        /\ prog[j].item = UsageName
        /\ \A m \in (j + 1)..(k - 1) : prog[m].item # UsageName
        /\ \E m \in (j + 1)..(k - 1) : prog[m].item = EndCollectionName

(***************************************************************************)
(* C32 as stated.  A Collection met at collection depth L is accepted      *)
(* whenever some Usage item appeared earlier in the source at depth L.     *)
(***************************************************************************)
C32_AnyUsageAtDepth ==
    \A k \in 1..Len(prog) :
        (prog[k].item = CollectionName /\ UsageAtDepth(k)) => ~MissingUsage(k)

(***************************************************************************)
(* C32.  The Usage-for-Collection check is satisfied by a Usage item that  *)
(* follows the previous Collection item, whatever depth it was met at and  *)
(* whatever EndCollection items lie between it and the Collection: a Usage *)
(* inside a sibling Collection that has since closed satisfies it, so a    *)
(* Collection can be accepted with no Usage between the previous           *)
(* EndCollection and it.  A Usage that precedes the previous Collection    *)
(* item does not satisfy it, at whatever depth it was met.                 *)
(***************************************************************************)
C32_UsageSinceCollection ==
    \A k \in 1..Len(prog) :
        prog[k].item = CollectionName =>
            /\ UsageSince(k) => ~MissingUsage(k)
            /\ (UsageSince(k) /\ n > StartOf(k) + Len(CollectionName) /\ n <= EndOf(k)) =>
                  colLevel = ColDepth(k - 1) + 1
            /\ (~UsageSince(k) /\ Failed /\ n >= StartOf(k)) => MissingUsage(k)

\* a Collection was accepted right after the EndCollection of a sibling
\* that holds the only Usage since the sibling was opened
C32_Witness ==
    \E k \in 5..Len(prog) :
        /\ prog[k].item = CollectionName /\ Accepted(k)
        /\ prog[k - 1].item = EndCollectionName
        /\ prog[k - 2].item = UsageName
        /\ prog[k - 3].item = CollectionName
        /\ ColDepth(k - 1) = ColDepth(k - 4)
        /\ ClosedSinceUsage(k)

(***************************************************************************)
(* The diagnostic and the return value; calls one after the other.         *)
(***************************************************************************)
\* compile run from c to its return, the loop and the code after it
RECURSIVE Compiled(_)
Compiled(c) ==
    IF c.pc # "loop" THEN c
    ELSE IF c.n < Len(source) /\ source[c.n + 1] # 0
    THEN Compiled([LoopBody(c) EXCEPT !.cont = FALSE, !.ub = FALSE])
    ELSE EndOfSource(c)

\* what a call of compile leaves to its caller
Outcome(c) == << c.ret, c.error, c.out >>

\* a call of compile that was given the diagnostic record of the call
\* before it has returned
AgainDone == SecondDone /\ prev.edit.kind = "again"

(***************************************************************************)
(* C33.  compile returns true exactly if the message of the diagnostic is  *)
(* No_error when it returns.  On success the diagnostic is character 0,    *)
(* line 0, column 0, No_error, whatever a failed call left in the record   *)
(* before; on failure the message is not No_error.  What a call returns    *)
(* and writes depends on the source and the parameters only: a call made   *)
(* after another one, with the record that one left, does what a first     *)
(* call on its source does.                                                *)
(***************************************************************************)
C33_Diagnostic ==
    /\ pc = "done" => (ret <=> error.message = "E_NO_ERROR")
    /\ (pc = "done" /\ ret) => error = Info
    /\ AgainDone =>
          /\ Outcome(Cur) = Outcome(Compiled(Entry))
          /\ source = prev.source => Outcome(Cur) = << prev.ret, prev.error, prev.out >>

\* a call on a source that fails was followed, with the same record, by a
\* call on a shorter source that succeeds and writes
C33_Witness ==
    /\ AgainDone /\ ~prev.ret /\ prev.error.message # "E_NO_ERROR"
    /\ source # prev.source
    /\ ret /\ out # << >> /\ error = Info

(***************************************************************************)
(* A NUL byte in the source.                                               *)
(***************************************************************************)
\* a call of compile on a source that goes on past a NUL byte has returned;
\* the call before it was on the bytes before the NUL
NulDone == SecondDone /\ prev.edit.kind = "nul"

(***************************************************************************)
(* C34.  A NUL byte acts as the end of the source: on a source whose size  *)
(* extends past a NUL byte compile returns the same value, the same        *)
(* message at the same offset and the same bytes as on the source cut      *)
(* before its first NUL byte.                                              *)
(***************************************************************************)
C34_NulEndsSource ==
    NulDone =>
        /\ ret = prev.ret
        /\ error.message = prev.error.message
        /\ error.character = prev.error.character
        /\ out = prev.out

(***************************************************************************)
(* A '-' without digits.                                                   *)
(***************************************************************************)
\* the source is a signed item or UnitExponent with an argument list that
\* starts with a '-' which whitespace or ')' follows
LoneMinus(s) ==
    \E i \in 2..(Len(s) - 1) :
        /\ SubSeq(s, 1, i - 2) \in {LogicalMinimumName, UnitExponentName}
        /\ s[i - 1] = 40 /\ s[i] = 45
        /\ isWhitespace(s[i + 1]) \/ s[i + 1] = 41

(***************************************************************************)
(* C35.  A numeric argument is accepted only if it has a digit: a '-' that *)
(* whitespace or ')' follows directly, in the argument list of a signed    *)
(* item or of UnitExponent, makes compile fail; it is never written as the *)
(* value 0.                                                                *)
(***************************************************************************)
C35_MinusNeedsDigit ==
    (pc = "done" /\ LoneMinus(source)) => (~ret /\ out = << >>)

(***************************************************************************)
(* The usage page a named usage is resolved in.                            *)
(***************************************************************************)
\* the last UsagePage chunk before chunk k, 0 when there is none
LastPage(k) == Greatest({0} \cup {j \in 1..(k - 1) : prog[j].item = UsagePageName})

\* the entry of usagePageMap a named UsagePage chunk names
PageEntry(ch) ==
    usagePageMap[CHOOSE i \in 1..Len(usagePageMap) : usagePageMap[i].name = ch.body]

\* the usage page ID chunk j, a UsagePage item, has written
PageId(j) == IF prog[j].form = "name" THEN PageEntry(prog[j]).value ELSE Value32(prog[j])[2]

\* chunk k is a Usage, UsageMinimum or UsageMaximum with a named argument
\* and has just been written
NamedUsageWritten(k) == IsUsageItem(prog[k]) /\ prog[k].form = "name" /\ JustClosed(k)

(***************************************************************************)
(* C36 as stated.  Whenever a named Usage, UsageMinimum or UsageMaximum    *)
(* argument is accepted, the usage table it was resolved in is that of the *)
(* usage page whose ID the most recent UsagePage item has written, be its  *)
(* argument a name, a number or a parameter.                               *)
(***************************************************************************)
C36_MostRecentPage ==
    \A k \in 1..Len(prog) :
        NamedUsageWritten(k) => (LastPage(k) > 0 /\ usagePage.value = PageId(LastPage(k)))

(***************************************************************************)
(* C36.  Whenever a named Usage, UsageMinimum or UsageMaximum argument is  *)
(* accepted, the usage table it was resolved in is that of the usage page  *)
(* the most recent UsagePage item with a named argument has set.  A        *)
(* UsagePage item with a number or a parameter writes its ID and leaves    *)
(* the current usage page as it is, so the table need not be that of the   *)
(* page whose ID was written last.                                         *)
(***************************************************************************)
C36_MostRecentNamedPage ==
    \A k \in 1..Len(prog) :
        /\ NamedUsageWritten(k) =>
              /\ LastNamedPage(k) > 0
              /\ usagePage = PageEntry(prog[LastNamedPage(k)])
              /\ LastOf(out, 1) = << Resolved(k).value >>
        /\ (prog[k].item = UsagePageName /\ prog[k].form # "name" /\ JustClosed(k)) =>
              /\ usagePage = IF LastNamedPage(k) = 0 THEN NullEnc
                             ELSE PageEntry(prog[LastNamedPage(k)])
              /\ LastOf(out, MinUnsigned(Value32(prog[k]))) =
                    LittleEndian(Value32(prog[k]), MinUnsigned(Value32(prog[k])))

\* a named usage was written after a usage page given by a parameter, whose
\* ID is not that of the named usage page before it
C36_Witness ==
    \E k \in 3..Len(prog) :
        /\ NamedUsageWritten(k)
        /\ LastPage(k) = k - 1 /\ prog[k - 1].form = "param"
        /\ LastNamedPage(k) = k - 2
        /\ PageId(k - 1) # PageId(k - 2)

(***************************************************************************)
(* The counters of ReportSize and ReportCount.                             *)
(***************************************************************************)
\* the chunks with the item name and an argument list that compile has read
\* up to the closing parenthesis
ClosedWith(name) ==
    {j \in 1..Len(prog) : prog[j].item = name /\ prog[j].form # "none" /\ EndOf(j) <= n}

\* the number of chunks before chunk k with the item name and an argument list
Before(k, name) ==
    Cardinality({j \in 1..(k - 1) : prog[j].item = name /\ prog[j].form # "none"})

\* what EndCollection as chunk k fails with, "" when nothing
EndCollectionVerdict(k) ==
    IF ColDepth(k - 1) <= 0 THEN "E_Unexpected_EndCollection"
    ELSE IF Before(k, ReportSizeName) < Before(k, ReportCountName) THEN "E_Missing_ReportSize"
    ELSE IF Before(k, ReportCountName) < Before(k, ReportSizeName) THEN "E_Missing_ReportCount"
    ELSE ""

(***************************************************************************)
(* C37.  reportSizes and reportCounts count the ReportSize and ReportCount *)
(* items closed with an argument list since the start of the source and    *)
(* are never reset.  An EndCollection is accepted exactly if the           *)
(* collection depth is positive and the two numbers are equal.  Nothing    *)
(* compares them at the end of the source: Missing_ReportSize and          *)
(* Missing_ReportCount are errors of an EndCollection only.                *)
(***************************************************************************)
C37_CumulativeCounters ==
    /\ pc \in {"loop", "done"} =>
          /\ reportSizes = Cardinality(ClosedWith(ReportSizeName))
          /\ reportCounts = Cardinality(ClosedWith(ReportCountName))
    /\ \A k \in 1..Len(prog) :
          (prog[k].item = EndCollectionName /\ prog[k].form = "none") =>
              /\ Accepted(k) => EndCollectionVerdict(k) = ""
              /\ EndCollectionVerdict(k) = "" => ~Rejected(k)
              /\ Rejected(k) => error.message = EndCollectionVerdict(k)
    /\ (Failed /\ error.message \in {"E_Missing_ReportSize", "E_Missing_ReportCount"}) =>
          \E k \in 1..Len(prog) : prog[k].item = EndCollectionName /\ Rejected(k)

\* compile has returned true on a source with a collection that was closed
\* and, after it, a ReportSize without a ReportCount
C37_Witness ==
    /\ pc = "done" /\ ret /\ sourceEnded
    /\ reportSizes = reportCounts + 1
    /\ \E k \in 1..(Len(prog) - 1) :
          /\ prog[k].item = EndCollectionName /\ Accepted(k)
          /\ prog[Len(prog)].item = ReportSizeName

(***************************************************************************)
(* A parameter in the place of a literal.                                  *)
(***************************************************************************)
\* the value of a sequence of decimal digits, << q, v >> for q * 2^32 + v,
\* continued from acc
RECURSIVE Wide(_, _)
Wide(d, acc) ==
    IF d = << >> THEN acc
    ELSE LET lo == acc[2][2] * 10 + (d[1] - 48)
             hi == acc[2][1] * 10 + lo \div 65536
         IN  Wide(Tail(d), << acc[1] * 10 + hi \div 65536, << hi % 65536, lo % 65536 >> >>)

\* the integer a decimal literal stands for, as the provider gives its values
LiteralValue(ch) ==
    LET v == Wide(ch.body, << 0, U32(0) >>)
    IN  IF ~ch.neg \/ v = << 0, U32(0) >> THEN v
        ELSE << (IF v[2] = U32(0) THEN 0 ELSE -1) - v[1], Neg32(v[2]) >>

\* the last chunk, whose literal the second call has as a parameter
Replaced == prog[Len(prog)]

\* a call of compile on the source with a parameter in the place of the
\* literal of the same value has returned
ParamDone ==
    /\ SecondDone /\ prev.edit.kind = "param"
    /\ find(Replaced.same).valid
    /\ find(Replaced.same).value = LiteralValue(Replaced)

(***************************************************************************)
(* C38.  A parameter and a decimal literal of the same value are           *)
(* interchangeable as an argument: whenever an item with a decimal         *)
(* literal, negative or not, compiles, the same item with a parameter of   *)
(* that value in the place of the literal compiles to the same bytes.      *)
(***************************************************************************)
C38_ParameterForLiteral ==
    (ParamDone /\ prev.ret) => (ret /\ out = prev.out)

(***************************************************************************)
(* C39: no byte outside the source is read                                 *)
(***************************************************************************)
\* a token lies inside the source
Inside(t) == t.start + t.length <= Len(source)

\* the hex prefix "0x" has just been taken: the loop stands on the byte
\* after the 'x', which the look-ahead ptr[2] has tested
AfterHexPrefix ==
    /\ pc = "loop" /\ "HEX_LIT" \in flags
    /\ n >= 2 /\ n <= Len(source) /\ source[n] = 120 /\ source[n - 1] = 48

\* the diagnostic is the count of a range of bytes source[0..p-1] of the source
ScannedInside == \E p \in 0..Len(source) : error = at(source, p, error.message)

\* C39: compile reads no byte at an index >= source.size(): the loop index
\* never passes the size, whatever the whitespace skip advances it by; the
\* byte that the look-ahead of the hex prefix has tested is a byte of the
\* source; the item and argument tokens handed to findEncoding and to the
\* parameter provider lie inside the source; and a diagnostic counts a
\* range of bytes that ends at or before the size, for every source, those
\* that end in the middle of a construct included
C39_ReadsInsideSource ==
    sourceEnded =>
        /\ n <= Len(source)
        /\ Inside(tItem) /\ Inside(tArg)
        /\ AfterHexPrefix => (n < Len(source) /\ isHexDigit(source[n + 1]))
        /\ (pc = "done" /\ ~ret) => ScannedInside

\* a source that ends right after the hex prefix is refused at its end, and
\* a source that ends in the whitespace after an item name is compiled to
\* its end
C39_Witness ==
    /\ SecondDone /\ Len(source) >= 2
    /\ \/ /\ source[Len(source)] = 120 /\ source[Len(source) - 1] = 48
          /\ ~ret /\ error.message = "E_Unexpected_end_of_source"
          /\ error.character = Len(source)
       \/ /\ isWhitespace(source[Len(source)]) /\ isItemChar(source[Len(source) - 1])
          /\ prev.edit.kind = "again" /\ n = Len(source)

(***************************************************************************)
(* C40: usageAtLevel stays at colLevel or one below it                     *)
(***************************************************************************)
\* usageAtLevel is colLevel or colLevel - 1, and not below -1
LevelsCoupled ==
    usageAtLevel \in {colLevel, colLevel - 1} /\ usageAtLevel >= -1

\* the loop is about to read the whitespace or the '(' that ends an item
\* name, which is Usage
UsageResolved ==
    /\ pc = "loop" /\ "ITEM" \in flags /\ n < Len(source)
    /\ (isWhitespace(source[n + 1]) \/ source[n + 1] = 40)
    /\ equalsI(Tok(tItem), UsageName)

\* C40: in every reachable state of compile usageAtLevel is colLevel or
\* colLevel - 1 and at least -1; a step changes colLevel by one at most; a
\* step of the loop that resolves a Usage item makes the two equal; a step that raises
\* colLevel is the acceptance of a Collection, starts with the two equal and
\* leaves usageAtLevel alone, one below colLevel; a step that lowers
\* colLevel is the acceptance of an EndCollection and lowers usageAtLevel
\* with it; and no other step changes usageAtLevel
C40_LevelsCoupled ==
    [][/\ LevelsCoupled /\ LevelsCoupled'
       /\ colLevel' \in {colLevel - 1, colLevel, colLevel + 1}
       /\ UsageResolved => (usageAtLevel' = colLevel' /\ colLevel' = colLevel)
       /\ colLevel' = colLevel + 1 =>
             /\ encMap'.arg = "colArgMap"
             /\ usageAtLevel = colLevel /\ usageAtLevel' = colLevel' - 1
       /\ colLevel' = colLevel - 1 =>
             /\ encMap'.arg = "endCol" /\ colLevel > 0
             /\ usageAtLevel' = usageAtLevel - 1
       /\ (colLevel' = colLevel /\ usageAtLevel' # usageAtLevel) =>
             (UsageResolved /\ usageAtLevel = colLevel - 1)]_vars

\* the second of two nested collections has been closed: the EndCollection
\* has lowered both levels and they are one apart at depth 1
C40_Witness ==
    /\ colLevel = 1 /\ usageAtLevel = 0
    /\ \E k \in 1..Len(prog) :
          /\ prog[k].item = EndCollectionName /\ ColDepth(k - 1) = 2
          /\ n >= EndOf(k) /\ (k < Len(prog) => n <= StartOf(k + 1))

====
